---------------------------- MODULE Spec2Model ----------------------------
(***************************************************************************)
(* A state-machine model of matscipy's fracture-mechanics core:            *)
(*   - matscipy/elasticity.py              CubicElasticModuli              *)
(*   - matscipy/fracture_mechanics/crack.py                                *)
(*         RectilinearAnisotropicCrack, CubicCrystalCrack,                 *)
(*         fit_crack_stress_field                                          *)
(*                                                                         *)
(* Numbers.  The program computes with IEEE doubles.  The model keeps the  *)
(* values exact where a claim is about a tolerance (1e-6) and rounds them  *)
(* to `prec' significant bits where a claim is about exact equality:       *)
(*   - a real number is a Num [c, d]: the polynomial c in delta = 1/Base   *)
(*     (five coefficients, degrees 0..4) divided by the natural number d;  *)
(*     d = 0 is NaN (the result of 0/0);                                   *)
(*   - the rows of an orientation matrix are w/sqrt(n): w holds three      *)
(*     entries c0 + c1*delta, n is the squared normaliser.  A direction    *)
(*     normalised by the program has n = w.w; n = 0 is the NaN row that    *)
(*     normalising the zero vector produces;                               *)
(*   - prec = 0 is exact arithmetic; prec > 0 rounds every floating-point  *)
(*     operation on an integer-valued number to prec significant bits,     *)
(*     ties to even, as a binary floating-point unit does.                 *)
(***************************************************************************)
EXTENDS Integers, Sequences, FiniteSets, TLC

VARIABLES
    prec,       \* significant bits of the arithmetic (0: exact)
    E,          \* the CubicElasticModuli object
    op,         \* the last call on E: its name, argument and outcome
    crack,      \* a RectilinearAnisotropicCrack object
    kcall,      \* the last call of crack.k1g: its argument and outcome
    cc,         \* the last call of the constructor of CubicCrystalCrack
    info,       \* atoms.info: the entries K, sigma0 and CrackPos
    fit,        \* the last call of fit_crack_stress_field
    mem,        \* the caller's arrays sigma and avg_sigma after the last call,
                \* and how many calls and accumulator updates there were
    atoms,      \* an Atoms object: positions, arrays and info entries
    ret         \* the last call of a function: its arguments and outcome

-----------------------------------------------------------------------------
(* Bounds of the model *)

\* elastic constants are drawn from 0..MaxC
MaxC == 5

\* significant bits of the rounded arithmetic
Prec == 3

-----------------------------------------------------------------------------
(* Exact arithmetic: polynomials in delta = 1/Base *)

\* tol = 1e-6 = delta^2 with delta = 1/Base
Base == 1000

Abs(k) == IF k < 0 THEN -k ELSE k

Sgn(k) == IF k < 0 THEN -1 ELSE IF k > 0 THEN 1 ELSE 0

PZero == <<0, 0, 0, 0, 0>>

PInt(k) == <<k, 0, 0, 0, 0>>

PAdd(p, q) == [i \in 1..5 |-> p[i] + q[i]]

PScale(k, p) == [i \in 1..5 |-> k * p[i]]

PSub(p, q) == PAdd(p, PScale(-1, q))

\* product, terms of degree above 4 dropped (none arises in the model)
PMul(p, q) ==
    << p[1]*q[1],
       p[1]*q[2] + p[2]*q[1],
       p[1]*q[3] + p[2]*q[2] + p[3]*q[1],
       p[1]*q[4] + p[2]*q[3] + p[3]*q[2] + p[4]*q[1],
       p[1]*q[5] + p[2]*q[4] + p[3]*q[3] + p[4]*q[2] + p[5]*q[1] >>

\* balanced remainder of k modulo Base, in -(Base \div 2 - 1) .. Base \div 2
BalRem(k) == ((k + (Base \div 2 - 1)) % Base) - (Base \div 2 - 1)

\* carry from degree 4 down to degree 1: every coefficient but the first
\* becomes a balanced digit, the value is unchanged
PNorm(p) ==
    LET r5 == BalRem(p[5])
        c4 == p[4] + (p[5] - r5) \div Base
        r4 == BalRem(c4)
        c3 == p[3] + (c4 - r4) \div Base
        r3 == BalRem(c3)
        c2 == p[2] + (c3 - r3) \div Base
        r2 == BalRem(c2)
        c1 == p[1] + (c2 - r2) \div Base
    IN  <<c1, r2, r3, r4, r5>>

\* sign of the value of p
PSign(p) ==
    LET q == PNorm(p)
    IN  IF q[1] # 0 THEN Sgn(q[1])
        ELSE IF q[2] # 0 THEN Sgn(q[2])
        ELSE IF q[3] # 0 THEN Sgn(q[3])
        ELSE IF q[4] # 0 THEN Sgn(q[4])
        ELSE Sgn(q[5])

PAbs(p) == IF PSign(p) < 0 THEN PScale(-1, p) ELSE p

\* p1 + p2 + p3 for a family p(_)
Sum3(F(_)) == PAdd(PAdd(F(1), F(2)), F(3))

\* the numbers
NaN == [c |-> PZero, d |-> 0]

NInt(k) == [c |-> PInt(k), d |-> 1]

IsNaN(x) == x.d = 0

NAdd(x, y) ==
    IF x.d = 0 \/ y.d = 0 THEN NaN
    ELSE IF x.d = y.d THEN [c |-> PAdd(x.c, y.c), d |-> x.d]
    ELSE [c |-> PAdd(PScale(y.d, x.c), PScale(x.d, y.c)), d |-> x.d * y.d]

NScale(k, x) == IF x.d = 0 THEN NaN ELSE [c |-> PScale(k, x.c), d |-> x.d]

\* sign of x - y for two numbers that are not NaN
NCmp(x, y) == PSign(PSub(PScale(y.d, x.c), PScale(x.d, y.c)))

\* x == y as IEEE compares them: NaN equals nothing
NEq(x, y) == x.d # 0 /\ y.d # 0 /\ NCmp(x, y) = 0

-----------------------------------------------------------------------------
(* Rounded arithmetic *)

RECURSIVE BitLen(_)
BitLen(k) == IF k = 0 THEN 0 ELSE 1 + BitLen(k \div 2)

RECURSIVE Pow2(_)
Pow2(e) == IF e = 0 THEN 1 ELSE 2 * Pow2(e - 1)

\* k rounded to p significant bits, ties to even
RoundBits(k, p) ==
    LET a == Abs(k)
        e == BitLen(a) - p
    IN  IF e <= 0 THEN k
        ELSE LET q   == Pow2(e)
                 m   == a \div q
                 rem == a % q
                 up  == (2 * rem > q) \/ (2 * rem = q /\ m % 2 = 1)
             IN  Sgn(k) * q * (IF up THEN m + 1 ELSE m)

\* the floating-point result of an operation whose exact result is k
Fl(k) == IF prec = 0 THEN k ELSE RoundBits(k, prec)

\* the same for a number: only integer values are rounded
FlN(x) ==
    IF prec = 0 \/ x.d # 1 \/ x.c # PInt(x.c[1]) THEN x
    ELSE NInt(RoundBits(x.c[1], prec))

-----------------------------------------------------------------------------
(* Orientation matrices *)

\* the row v/|v| that the program makes of a direction v (NaN row for v = 0)
Normalised(v) ==
    [w |-> << <<v[1], 0>>, <<v[2], 0>>, <<v[3], 0>> >>,
     n |-> v[1]*v[1] + v[2]*v[2] + v[3]*v[3]]

\* a row given entry by entry in fixed point: entries c0 + c1*delta
FixedRow(e1, e2, e3) == [w |-> <<e1, e2, e3>>, n |-> 1]

\* np.array([r1, r2, r3])
Mat(r1, r2, r3) == [w |-> <<r1.w, r2.w, r3.w>>, n |-> <<r1.n, r2.n, r3.n>>]

\* np.eye(3)
Identity ==
    Mat(Normalised(<<1, 0, 0>>), Normalised(<<0, 1, 0>>), Normalised(<<0, 0, 1>>))

\* np.cross(u, v) of two integer directions
Cross(u, v) ==
    << u[2]*v[3] - u[3]*v[2], u[3]*v[1] - u[1]*v[3], u[1]*v[2] - u[2]*v[1] >>

\* the numerator of A[i, a] (rows i = 0..2 as in the source, columns a = 1..3)
Entry(A, i, a) == <<A.w[i+1][a][1], A.w[i+1][a][2], 0, 0, 0>>

\* the numerator of np.dot(A, A^T)[i, j]; its denominator is sqrt(n_i n_j)
RowDot(A, i, j) == Sum3(LAMBDA a : PMul(Entry(A, i, a), Entry(A, j, a)))

\* the numerator of np.linalg.det(A); its denominator is sqrt(n_0 n_1 n_2)
DetNum(A) ==
    LET M(i, a, j, b) == PSub(PMul(Entry(A, i, a), Entry(A, j, b)),
                              PMul(Entry(A, i, b), Entry(A, j, a)))
    IN  PAdd(PSub(PMul(Entry(A, 0, 1), M(1, 2, 2, 3)),
                  PMul(Entry(A, 0, 2), M(1, 1, 2, 3))),
             PMul(Entry(A, 0, 3), M(1, 1, 2, 2)))

HasNaN(A) == \E i \in 1..3 : A.n[i] = 0

\* the sign of np.linalg.det(A) for A without NaN
DetSign(A) == PSign(DetNum(A))

\* np.linalg.det(A) < 0; a NaN determinant compares False
DetNegative(A) == ~HasNaN(A) /\ DetSign(A) < 0

-----------------------------------------------------------------------------
(* CubicElasticModuli *)

\* tol = 1e-6, as a polynomial in delta: delta^2
tol == <<0, 0, 1, 0, 0>>

\* the slot table with the C12 slots in ascending order of their index pairs
tAscending == << <<0, 0, 0, 0>>, <<1, 1, 1, 1>>, <<2, 2, 2, 2>>,
                 <<0, 0, 1, 1>>, <<0, 0, 2, 2>>, <<1, 1, 2, 2>>,
                 <<1, 2, 1, 2>>, <<0, 2, 0, 2>>, <<0, 1, 0, 1>> >>

\* the indices of the full stiffness matrix of (orthorhombic) interest
t == << <<0, 0, 0, 0>>, <<1, 1, 1, 1>>, <<2, 2, 2, 2>>,
        <<1, 1, 2, 2>>, <<0, 0, 2, 2>>, <<0, 0, 1, 1>>,
        <<1, 2, 1, 2>>, <<0, 2, 0, 2>>, <<0, 1, 0, 1>> >>

\* Exceeds with >= in place of >
ExceedsOrEqual(A, i, j) ==
    LET ni == A.n[i+1]
        nj == A.n[j+1]
        P  == RowDot(A, i, j)
    IN  IF ni = 0 \/ nj = 0 THEN FALSE
        ELSE IF i = j
             THEN PSign(PSub(PAbs(PSub(P, PInt(ni))), PScale(ni, tol))) >= 0
             ELSE PSign(PSub(PMul(P, P), PScale(ni * nj, PMul(tol, tol)))) >= 0

\* np.abs(np.dot(A, A^T) - np.eye(3))[i, j] > tol; a NaN entry compares False
Exceeds(A, i, j) ==
    LET ni == A.n[i+1]
        nj == A.n[j+1]
        P  == RowDot(A, i, j)
    IN  IF ni = 0 \/ nj = 0 THEN FALSE
        ELSE IF i = j
             THEN PSign(PSub(PAbs(PSub(P, PInt(ni))), PScale(ni, tol))) > 0
             ELSE PSign(PSub(PMul(P, P), PScale(ni * nj, PMul(tol, tol)))) > 0

\* "Is this a rotation matrix?": np.sometrue(... > self.tol)
NotRotation(A) == \E i \in 0..2, j \in 0..2 : Exceeds(A, i, j)

\* np.sum(A[i,:]*A[j,:]*A[k,:]*A[m,:]) for a slot of t (each row index
\* occurs twice in a slot, so the product of the normalisers is n_i n_m)
Quad(A, i, j, k, m) ==
    LET d == A.n[i+1] * A.n[m+1]
    IN  IF d = 0 THEN NaN
        ELSE [c |-> Sum3(LAMBDA a : PMul(PMul(Entry(A, i, a), Entry(A, j, a)),
                                         PMul(Entry(A, k, a), Entry(A, m, a)))),
              d |-> d]

\* IsoPart without the third conditional +=
IsoPartTwoTerms(e, i, j, k, m) ==
    LET h1 == IF i = j /\ k = m THEN Fl(e.la) ELSE 0
    IN  IF i = k /\ j = m THEN Fl(h1 + e.mu) ELSE h1

\* the unrotated part of a stiffness entry: h after the three conditional +=
IsoPart(e, i, j, k, m) ==
    LET h0 == 0
        h1 == IF i = j /\ k = m THEN Fl(h0 + e.la) ELSE h0
        h2 == IF i = k /\ j = m THEN Fl(h1 + e.mu) ELSE h1
        h3 == IF i = m /\ j = k THEN Fl(h2 + e.mu) ELSE h2
    IN  h3

\* RotSlot without the anisotropic term al*sum(A A A A)
RotSlotIsotropic(e, A, s) == NInt(IsoPart(e, s[1], s[2], s[3], s[4]))

\* one pass of the loop of rotate: h for the slot s = (i, j, k, m)
RotSlot(e, A, s) ==
    LET i == s[1]
        j == s[2]
        k == s[3]
        m == s[4]
    IN  FlN(NAdd(NInt(IsoPart(e, i, j, k, m)),
                 FlN(NScale(e.al, FlN(Quad(A, i, j, k, m))))))

\* self.C11_rot, self.C12_rot, self.C44_rot = C[0:3], C[3:6], C[6:9]
Store(e, C) ==
    [e EXCEPT !.C11_rot = <<C[1], C[2], C[3]>>,
              !.C12_rot = <<C[4], C[5], C[6]>>,
              !.C44_rot = <<C[7], C[8], C[9]>>]

\* rotate applied on top of the constants stored by the previous call
rotate_cumulative(e, A) ==
    IF NotRotation(A)
    THEN [obj |-> e, outcome |-> "RuntimeError"]
    ELSE LET old == e.C11_rot \o e.C12_rot \o e.C44_rot
             drift(p) == IF old = <<>> THEN NInt(0)
                         ELSE NAdd(old[p], NScale(-1, RotSlot(e, Identity, t[p])))
         IN  [obj |-> Store(e, [p \in 1..9 |-> NAdd(RotSlot(e, A, t[p]), drift(p))]),
              outcome |-> "ok"]

\* CubicElasticModuli.rotate(A): the object after the call and how it ended
rotate(e, A) ==
    IF NotRotation(A)
    THEN [obj |-> e, outcome |-> "RuntimeError"]
    ELSE [obj |-> Store(e, [p \in 1..9 |-> RotSlot(e, A, t[p])]),
          outcome |-> "ok"]

\* the unrotated stiffness C[i, j, k, m] that _rotate_explicit constructs
Unrotated(e, i, j, k, m) ==
    LET h3 == IsoPart(e, i, j, k, m)
    IN  IF i = j /\ j = k /\ k = m THEN Fl(h3 + e.al) ELSE h3

\* np.einsum('ia,jb,kc,ld,abcd->ijkl', A, A, A, A, C)[i, j, k, m] for a slot
Einsum(e, A, i, j, k, m) ==
    LET d == A.n[i+1] * A.n[m+1]
    IN  IF d = 0 THEN NaN
        ELSE [c |-> Sum3(LAMBDA a : Sum3(LAMBDA b : Sum3(LAMBDA c : Sum3(LAMBDA dd :
                      PScale(Unrotated(e, a-1, b-1, c-1, dd-1),
                             PMul(PMul(Entry(A, i, a), Entry(A, j, b)),
                                  PMul(Entry(A, k, c), Entry(A, m, dd)))))))),
              d |-> d]

\* CubicElasticModuli._rotate_explicit(A)
rotate_explicit(e, A) ==
    IF NotRotation(A)
    THEN [obj |-> e, outcome |-> "RuntimeError"]
    ELSE [obj |-> Store(e, [p \in 1..9 |->
                     Einsum(e, A, t[p][1], t[p][2], t[p][3], t[p][4])]),
          outcome |-> "ok"]

\* CubicElasticModuli.__init__(C11, C12, C44)
NewModuli(C11, C12, C44) ==
    LET la == C12
        mu == C44
        e0 == [C11 |-> C11, C12 |-> C12, C44 |-> C44,
               la |-> la, mu |-> mu,
               al |-> Fl(Fl(C11 - la) - Fl(2 * mu)),
               C11_rot |-> <<>>, C12_rot |-> <<>>, C44_rot |-> <<>>]
    IN  rotate(e0, Identity).obj

\* CubicElasticModuli.stiffness()
stiffness(e) == <<e.C11_rot, e.C12_rot, e.C44_rot>>

\* CubicElasticModuli.compliance(): raise NotImplementedError
compliance(e) == [outcome |-> "NotImplementedError", S6 |-> <<>>]

-----------------------------------------------------------------------------
(* Complex numbers: (re + i*im)/d with integer re, im and d > 0; d = 0 is *)
(* a value that is not finite (a division by zero: inf or NaN)             *)

RECURSIVE GCD(_, _)
GCD(a, b) == IF b = 0 THEN Abs(a) ELSE GCD(b, a % Abs(b))

\* (re + i*im)/d in lowest terms
CFrac(re, im, d) ==
    LET g == GCD(GCD(re, im), d)
    IN  [re |-> re \div g, im |-> im \div g, d |-> d \div g]

CNum(re, im) == [re |-> re, im |-> im, d |-> 1]

CNonFinite == [re |-> 0, im |-> 0, d |-> 0]

CFinite(z) == z.d # 0

CConj(z) == [z EXCEPT !.im = -z.im]

CAdd(x, y) ==
    IF x.d = 0 \/ y.d = 0 THEN CNonFinite
    ELSE CFrac(x.re * y.d + y.re * x.d, x.im * y.d + y.im * x.d, x.d * y.d)

CNeg(z) == [z EXCEPT !.re = -z.re, !.im = -z.im]

CSub(x, y) == CAdd(x, CNeg(y))

CMul(x, y) ==
    IF x.d = 0 \/ y.d = 0 THEN CNonFinite
    ELSE CFrac(x.re * y.re - x.im * y.im, x.re * y.im + x.im * y.re, x.d * y.d)

\* 1/z; numpy divides by zero without raising
CInv(z) ==
    IF z.d = 0 \/ (z.re = 0 /\ z.im = 0) THEN CNonFinite
    ELSE LET m == z.re * z.re + z.im * z.im
         IN  CFrac(z.re * z.d, -(z.im * z.d), m)

CDiv(x, y) == CMul(x, CInv(y))

\* x == y for numpy complex numbers
CEq(x, y) ==
    /\ x.d # 0
    /\ y.d # 0
    /\ x.re * y.d = y.re * x.d
    /\ x.im * y.d = y.im * x.d

-----------------------------------------------------------------------------
(* RectilinearAnisotropicCrack *)

\* largest imaginary part of a root of the characteristic quartic
MaxIm == 2

\* the roots the model knows: re in 0..1, im in -MaxIm..MaxIm
UpperRoots == { CNum(re, im) : re \in 0..1, im \in 1..MaxIm }

RealRoots == { CNum(re, 0) : re \in 0..1 }

\* the four roots of a real quartic, in one order for each multiset: two
\* conjugate pairs, one pair and two real roots, or four real roots
RootFamilies ==
    { <<z, CConj(z), w, CConj(w)>> : z \in UpperRoots, w \in UpperRoots }
    \cup { <<z, CConj(z), x, y>> : z \in UpperRoots, x \in RealRoots, y \in RealRoots }
    \cup { <<x, x, y, y>> : x \in RealRoots, y \in RealRoots }
    \cup { <<CNum(0, 0), CNum(0, 0), CNum(0, 0), CNum(1, 0)>>,
           <<CNum(1, 0), CNum(1, 0), CNum(1, 0), CNum(0, 0)>> }

Perms4 == { f \in [1..4 -> 1..4] : \A i \in 1..4, j \in 1..4 : f[i] = f[j] => i = j }

\* the coefficients of lead * (x - r1)(x - r2)(x - r3)(x - r4), highest first
Expand(lead, r) ==
    LET e1 == CAdd(CAdd(r[1], r[2]), CAdd(r[3], r[4]))
        e2 == CAdd(CAdd(CAdd(CMul(r[1], r[2]), CMul(r[1], r[3])),
                        CAdd(CMul(r[1], r[4]), CMul(r[2], r[3]))),
                   CAdd(CMul(r[2], r[4]), CMul(r[3], r[4])))
        e3 == CAdd(CAdd(CMul(CMul(r[1], r[2]), r[3]), CMul(CMul(r[1], r[2]), r[4])),
                   CAdd(CMul(CMul(r[1], r[3]), r[4]), CMul(CMul(r[2], r[3]), r[4])))
        e4 == CMul(CMul(r[1], r[2]), CMul(r[3], r[4]))
    IN  <<lead, -(lead * e1.re), lead * e2.re, -(lead * e3.re), lead * e4.re>>

\* np.poly1d([a11, -2*a16, 2*a12 + a66, -2*a26, a22])
Quartic(c) == <<c.a11, -2 * c.a16, 2 * c.a12 + c.a66, -2 * c.a26, c.a22>>

\* p.r: the roots of the polynomial p, in whatever order the root finder
\* returns them; fewer than four when the leading coefficient is zero
PolyRoots(p) ==
    IF p[1] = 0 THEN { <<>> }
    ELSE { [i \in 1..4 |-> r[f[i]]] : r \in { q \in RootFamilies : Expand(p[1], q) = p },
                                      f \in Perms4 }

\* RectilinearAnisotropicCrack.__init__: every coefficient is None
NewCrack ==
    [state |-> "new",
     a11 |-> 0, a22 |-> 0, a12 |-> 0, a16 |-> 0, a26 |-> 0, a66 |-> 0,
     roots |-> <<>>, error |-> "none"]

\* the assignments of set_plane_stress
PlaneStress(c, a11, a22, a12, a16, a26, a66) ==
    [c EXCEPT !.state = "coefficients",
              !.a11 = a11, !.a22 = a22, !.a12 = a12,
              !.a16 = a16, !.a26 = a26, !.a66 = a66]

\* the assignments of set_plane_strain, for b33 = 1 or -1 (so that the
\* quotients are integers)
PlaneStrain(c, b11, b22, b33, b12, b13, b23, b16, b26, b36, b66) ==
    [c EXCEPT !.state = "coefficients",
              !.a11 = b11 - (b13 * b13) \div b33,
              !.a22 = b22 - (b23 * b23) \div b33,
              !.a12 = b12 - (b13 * b23) \div b33,
              !.a16 = b16 - (b13 * b36) \div b33,
              !.a26 = b26 - (b23 * b36) \div b33,
              !.a66 = b66]

\* the dependent parameters computed from mu1 and mu2
Dependent(c, mu1, mu2) ==
    LET R(k) == CNum(k, 0)
        p1 == CSub(CAdd(CMul(R(c.a11), CMul(mu1, mu1)), R(c.a12)), CMul(R(c.a16), mu1))
        p2 == CSub(CAdd(CMul(R(c.a11), CMul(mu2, mu2)), R(c.a12)), CMul(R(c.a16), mu2))
        q1 == CSub(CAdd(CMul(R(c.a12), mu1), CDiv(R(c.a22), mu1)), R(c.a26))
        q2 == CSub(CAdd(CMul(R(c.a12), mu2), CDiv(R(c.a22), mu2)), R(c.a26))
    IN  [mu1 |-> mu1, mu2 |-> mu2, p1 |-> p1, p2 |-> p2, q1 |-> q1, q2 |-> q2,
         h1 |-> CInv(CSub(mu1, mu2)),
         h2 |-> CMul(mu1, p2), h3 |-> CMul(mu2, p1),
         h4 |-> CMul(mu1, q2), h5 |-> CMul(mu2, q1)]

\* RootsCheck without the test of mu3 and mu4
RootsCheckFirstPair(r) ==
    IF Len(r) # 4 THEN "ValueError"
    ELSE IF ~CEq(r[1], CConj(r[2])) THEN "Roots not in pairs."
    ELSE "none"

\* mu1, mu2, mu3, mu4 = p.r and the two tests "Roots not in pairs."
RootsCheck(r) ==
    IF Len(r) # 4 THEN "ValueError"
    ELSE IF ~CEq(r[1], CConj(r[2])) THEN "Roots not in pairs."
    ELSE IF ~CEq(r[3], CConj(r[4])) THEN "Roots not in pairs."
    ELSE "none"

\* _init_crack with mu2 taken from the pair of mu1
init_crack_same_pair(c, r) ==
    IF RootsCheck(r) # "none"
    THEN [c EXCEPT !.roots = r, !.error = RootsCheck(r)]
    ELSE [state |-> "configured",
          a11 |-> c.a11, a22 |-> c.a22, a12 |-> c.a12,
          a16 |-> c.a16, a26 |-> c.a26, a66 |-> c.a66,
          roots |-> r, error |-> "none",
          par |-> Dependent(c, r[1], r[2])]

\* RectilinearAnisotropicCrack._init_crack, r being what p.r returned
init_crack(c, r) ==
    IF RootsCheck(r) # "none"
    THEN [c EXCEPT !.roots = r, !.error = RootsCheck(r)]
    ELSE [state |-> "configured",
          a11 |-> c.a11, a22 |-> c.a22, a12 |-> c.a12,
          a16 |-> c.a16, a26 |-> c.a26, a66 |-> c.a66,
          roots |-> r, error |-> "none",
          par |-> Dependent(c, r[1], r[3])]

\* floor of the square root of a natural number, by bisection of lo..hi
RECURSIVE SqrtIn(_, _, _)
SqrtIn(n, lo, hi) ==
    IF hi - lo <= 1 THEN lo
    ELSE LET mid == (lo + hi) \div 2
         IN  IF mid * mid <= n THEN SqrtIn(n, mid, hi) ELSE SqrtIn(n, lo, mid)

ISqrt(n) == SqrtIn(n, 0, n + 1)

\* -4*surface_energy / (a22 * ((mu1 + mu2)/(mu1*mu2)).imag) as num/den with
\* den > 0; a division by zero gives inf, -inf or NaN in numpy
Radicand(c, surface_energy) ==
    LET z   == CDiv(CAdd(c.par.mu1, c.par.mu2), CMul(c.par.mu1, c.par.mu2))
        num == -4 * surface_energy * z.d
        den == c.a22 * z.im
    IN  IF z.d = 0 \/ (den = 0 /\ num = 0) THEN [kind |-> "nan", num |-> 0, den |-> 1]
        ELSE IF den = 0 THEN [kind |-> IF num > 0 THEN "inf" ELSE "-inf", num |-> 0, den |-> 1]
        ELSE [kind |-> "finite", num |-> (Sgn(den) * num) \div GCD(num, den),
              den |-> Abs(den) \div GCD(num, den)]

\* Sqrt without the domain error: the root of the absolute value
SqrtOfAbs(x) ==
    IF x.kind # "finite" THEN [outcome |-> "ok", ret |-> x]
    ELSE [outcome |-> "ok",
          ret |-> [kind |-> "finite", num |-> ISqrt(Abs(x.num) * x.den), den |-> x.den]]

\* math.sqrt(x): ValueError below zero and at -inf; NaN and inf are returned;
\* a finite root num/den is rounded down to a multiple of 1/den
Sqrt(x) ==
    IF x.kind = "-inf" \/ (x.kind = "finite" /\ x.num < 0)
    THEN [outcome |-> "ValueError", ret |-> x]
    ELSE IF x.kind # "finite" THEN [outcome |-> "ok", ret |-> x]
    ELSE [outcome |-> "ok",
          ret |-> [kind |-> "finite", num |-> ISqrt(x.num * x.den), den |-> x.den]]

\* RectilinearAnisotropicCrack.k1g(surface_energy)
k1g(c, surface_energy) ==
    IF c.state # "configured"
    THEN [outcome |-> "AttributeError", ret |-> [kind |-> "nan", num |-> 0, den |-> 1]]
    ELSE Sqrt(Radicand(c, surface_energy))

-----------------------------------------------------------------------------
(* The inputs of the model *)

\* np.array([x/np.linalg.norm(x) for x in directions])
Directions(a, b, c) == Mat(Normalised(a), Normalised(b), Normalised(c))

\* the four orientations of tests/rotation_of_elastic_constants.py
TestOrientations ==
    { Directions(<<1, 0, 0>>, <<0, 1, 0>>, <<0, 0, 1>>),
      Directions(<<0, 1, 0>>, <<0, 0, 1>>, <<1, 0, 0>>),
      Directions(<<1, 1, 0>>, <<0, 0, 1>>, <<1, -1, 0>>),
      Directions(<<1, 1, 1>>, <<-1, -1, 2>>, <<1, -1, 0>>) }

\* the fixed-point matrix [[1, a*delta, 0], [-b*delta, 1, 0], [0, 0, 1]]:
\* A.A^T - I has a^2*delta^2 and b^2*delta^2 on the diagonal and
\* (a-b)*delta off it
NearIdentity(a, b) ==
    Mat(FixedRow(<<1, 0>>, <<0, a>>, <<0, 0>>),
        FixedRow(<<0, -b>>, <<1, 0>>, <<0, 0>>),
        FixedRow(<<0, 0>>, <<0, 0>>, <<1, 0>>))

\* the largest multiple of delta in a fixed-point matrix
MaxDelta == 2

\* the matrices handed to rotate and _rotate_explicit: the test's, a
\* left-handed one, two with rows that are not perpendicular, one with a
\* NaN row, and the matrices within a few tol of the identity
RotArgs ==
    TestOrientations
    \cup { Directions(<<0, 1, 0>>, <<1, 0, 0>>, <<0, 0, 1>>),
           Directions(<<1, 0, 0>>, <<1, 1, 0>>, <<0, 0, 1>>),
           Directions(<<1, 0, 0>>, <<1, 0, 0>>, <<0, 0, 1>>),
           Directions(<<0, 0, 0>>, <<0, 1, 0>>, <<0, 0, 1>>) }
    \cup { NearIdentity(a, b) : a \in 0..MaxDelta, b \in 0..MaxDelta }

\* the elastic constants (C11, C12, C44) of the exactly computed runs
ElasticSet == {MaxC} \X (1..2) \X (1..2)

\* the elastic constants of the rounded runs
FloatElasticSet == (0..MaxC) \X (0..MaxC) \X (0..MaxC)

\* a matrix whose entries are floating-point numbers themselves
Representable(A) ==
    /\ \A i \in 1..3 : A.n[i] = 1
    /\ \A i \in 1..3, a \in 1..3 : A.w[i][a][2] = 0

-----------------------------------------------------------------------------
(* fit_crack_stress_field *)

\* a dict d after d.update(e)
Update(d, e) ==
    [k \in DOMAIN d \cup DOMAIN e |-> IF k \in DOMAIN e THEN e[k] ELSE d[k]]

\* None, and the empty dict that stands for it
None == <<>>

\* atoms.positions[:, 0:2]
Positions == << <<0, 0>>, <<3, 4>>, <<6, 8>>, <<9, 0>> >>

AtomIds == 1..Len(Positions)

\* a rational n/d in lowest terms
Q(n, d) == <<(Sgn(d) * n) \div GCD(n, d), Abs(d) \div GCD(n, d)>>

QAdd(p, q) == Q(p[1] * q[2] + q[1] * p[2], p[2] * q[2])

QSub(p, q) == Q(p[1] * q[2] - q[1] * p[2], p[2] * q[2])

QMul(p, q) == Q(p[1] * q[1], p[2] * q[2])

\* the stress of one atom: xy stands for its components in the xy plane
\* (sigma[0,0], [1,1], [0,1], [1,0]), z for those out of it (sigma[2,2],
\* [0,2], [2,0], [1,2], [2,1])
Stress(xy, z) == [xy |-> Q(xy, 1), z |-> Q(z, 1)]

\* the per-atom stresses the caller passes as sigma
Sigma == [a \in AtomIds |-> Stress(a, 1)]

\* the accumulator without the update
Stale(avg_sigma, sigma, w) == avg_sigma

\* avg_sigma[...] = np.exp(-avg_decay)*avg_sigma
\*                  + (1.0 - np.exp(-avg_decay))*sigma, w being exp(-avg_decay)
Accumulate(avg_sigma, sigma, w) ==
    [a \in AtomIds |->
        [xy |-> QAdd(QMul(w, avg_sigma[a].xy), QMul(QSub(Q(1, 1), w), sigma[a].xy)),
         z  |-> QAdd(QMul(w, avg_sigma[a].z), QMul(QSub(Q(1, 1), w), sigma[a].z))]]

\* sigma[:,2,2] = 0.0 and the four assignments after it
ZeroOutOfPlane(sigma) == [a \in AtomIds |-> [xy |-> sigma[a].xy, z |-> Q(0, 1)]]

\* atoms.cell[2, 2]/2.0
CellZ == 1

\* the unit constant of the first guess of K
MPA_SQRT_M == 1

MinX == CHOOSE x \in { Positions[a][1] : a \in AtomIds } :
            \A b \in AtomIds : x <= Positions[b][1]

MaxX == CHOOSE x \in { Positions[a][1] : a \in AtomIds } :
            \A b \in AtomIds : x >= Positions[b][1]

\* atoms.info without the entries of an earlier fit
NoInfo == <<>>

\* the guess for K: atoms.info['K'], or 1.0*MPA_SQRT_M (the KeyError branch:
\* the model's atoms.info holds no OrigHeight)
WithK(p, inf) ==
    IF "K" \in DOMAIN p THEN p
    ELSE IF "K" \in DOMAIN inf THEN Update(p, [K |-> inf["K"]])
    ELSE Update(p, [K |-> MPA_SQRT_M])

\* the guess for the far-field stress: atoms.info['sigma0'], or zero (the
\* KeyError branch: the model's atoms.info holds no YoungsModulus)
WithSigma0(p, inf) ==
    IF {"sxx0", "syy0", "sxy0"} \subseteq DOMAIN p THEN p
    ELSE IF "sigma0" \in DOMAIN inf
    THEN Update(p, [sxx0 |-> inf["sigma0"][1], syy0 |-> inf["sigma0"][2],
                    sxy0 |-> inf["sigma0"][3]])
    ELSE Update(p, [syy0 |-> 0, sxx0 |-> 0, sxy0 |-> 0])

\* the guess for the crack position without the look at atoms.info
GuessCrackPos(p, inf) ==
    IF {"x0", "y0"} \subseteq DOMAIN p THEN p
    ELSE Update(p, [x0 |-> MinX + (MaxX - MinX) \div 3, y0 |-> 0])

\* the guess for the crack position: atoms.info['CrackPos'], or a third of
\* the way along x and y0 = 0
WithCrackPos(p, inf) ==
    IF {"x0", "y0"} \subseteq DOMAIN p THEN p
    ELSE IF "CrackPos" \in DOMAIN inf
    THEN Update(p, [x0 |-> inf["CrackPos"][1], y0 |-> inf["CrackPos"][2]])
    ELSE Update(p, [x0 |-> MinX + (MaxX - MinX) \div 3, y0 |-> 0])

\* params before the fit: initial_params, the guesses, then fix_params
StartParams(initial_params, fix_params, inf) ==
    Update(WithCrackPos(WithSigma0(WithK(initial_params, inf), inf), inf), fix_params)

\* r*r for atom a: (x - params['x0'])**2 + (y - params['y0'])**2
Distance2(p, a) ==
    (Positions[a][1] - p["x0"]) * (Positions[a][1] - p["x0"])
    + (Positions[a][2] - p["y0"]) * (Positions[a][2] - p["y0"])

\* (r > rmin) & (r < rmax), r >= 0 being given by its square
InRange(r2, rmin, rmax) ==
    /\ rmin < 0 \/ r2 > rmin * rmin
    /\ rmax > 0 /\ r2 < rmax * rmax

\* the mask of a call without r_range, whatever r_range is
MaskAll(p, r_range) == AtomIds

\* mask: Ellipsis (all atoms) or the atoms of the annulus
Mask(p, r_range) ==
    IF r_range = None THEN AtomIds
    ELSE { a \in AtomIds : InRange(Distance2(p, a), r_range[1], r_range[2]) }

\* IrwinStressField(**params).get_stresses(atoms)[a]: the predicted stress of
\* atom a, kept as the parameters it is computed from
IrwinStress(params, a) == [params |-> params, atom |-> a]

\* objective_function(params, x, y, sigma, var_params): for each atom of the
\* mask the 3x3 difference of sigma and irwin_sigma, kept as its two operands
objective_function(v, fix_params, mask, sigma) ==
    [a \in mask |-> [sigma |-> sigma[a],
                     irwin_sigma |-> IrwinStress(Update(v, fix_params), a)]]

\* VarParams without the test "key not in fix_params.keys()"
VarParamsAll(p, fix_params) == DOMAIN p

\* var_params: the keys of params that are not in fix_params
VarParams(p, fix_params) == DOMAIN p \ DOMAIN fix_params

\* leastsq(objective_function, initial_params, ...): TypeError when there are
\* more variables than residuals; else the solver returns some vector x, a
\* covariance cov that is None when singular, and its status ier, having
\* evaluated the function at the start vector and at x
leastsq(start, fix_params, mask, sigma, shift, cov, ier) ==
    LET x == [k \in DOMAIN start |-> start[k] + shift]
    IN  IF Cardinality(DOMAIN start) > 9 * Cardinality(mask)
        THEN [outcome |-> "TypeError", x |-> start, cov |-> None, ier |-> 0,
              evals |-> { objective_function(start, fix_params, mask, sigma) }]
        ELSE [outcome |-> "ok", x |-> x, cov |-> cov, ier |-> ier,
              evals |-> { objective_function(start, fix_params, mask, sigma),
                          objective_function(x, fix_params, mask, sigma) }]

\* no call of fit_crack_stress_field yet
NoFit == [outcome |-> "none"]

\* the caller's arrays before any call
NoArrays == [sigma |-> Sigma, avg_sigma |-> None, calls |-> 0, updates |-> 0]

\* cov is None: a standard error for every variable all the same
ErrOfDiagonal(var_params, cov) == [k \in var_params |-> 1]

\* err: 0. for every variable when cov is None, else the square roots of the
\* diagonal of the scaled covariance, every one kept as 1
ErrOf(var_params, cov) == [k \in var_params |-> IF cov = None THEN 0 ELSE 1]

\* sigma.size - len(fitted_params), the divisor of s_sq: sigma has 3x3
\* components for every atom
DegreesOfFreedom(sigma, var_params) ==
    9 * Cardinality(DOMAIN sigma) - Cardinality(var_params)

\* fit_crack_stress_field(atoms, r_range, initial_params, fix_params, sigma,
\* avg_sigma, avg_decay): the record of the call (what it returned, what it
\* evaluated), atoms.info after it and the caller's arrays sigma and
\* avg_sigma after it; w is exp(-avg_decay), and shift, cov and ier are the
\* solver's choice
fit_crack_stress_field(inf, r_range, initial_params, fix_params, sigma, avg_sigma, w, shift, cov, ier) ==
    LET params0    == StartParams(initial_params, fix_params, inf)
        avg_after  == IF avg_sigma = None THEN None
                      ELSE Accumulate(avg_sigma, sigma, w)
        \* sigma is the caller's array, or a copy of the accumulator
        used       == ZeroOutOfPlane(IF avg_sigma = None THEN sigma ELSE avg_after)
        sigma_after == IF avg_sigma = None THEN used ELSE sigma
        mask       == Mask(params0, r_range)
        var_params == VarParams(params0, fix_params)
        start      == [k \in var_params |-> params0[k]]
        sol        == leastsq(start, fix_params, mask, used, shift, cov, ier)
        params     == Update(sol.x, fix_params)
        err        == ErrOf(var_params, sol.cov)
        call       == [r_range |-> r_range, initial_params |-> initial_params,
                       fix_params |-> fix_params, before |-> inf,
                       params0 |-> params0, var_params |-> var_params,
                       evals |-> sol.evals, ier |-> sol.ier, cov |-> sol.cov,
                       sigma |-> sigma, avg_sigma |-> avg_sigma, w |-> w,
                       dof |-> DegreesOfFreedom(used, var_params)]
    IN  IF sol.outcome # "ok"
        THEN [info |-> inf, sigma |-> sigma_after, avg_sigma |-> avg_after,
              fit |-> [outcome |-> sol.outcome, call |-> call,
                       params |-> None, err |-> None]]
        ELSE [info |-> Update(inf, [K |-> params["K"],
                                    sigma0 |-> <<params["sxx0"], params["syy0"],
                                                 params["sxy0"]>>,
                                    CrackPos |-> <<params["x0"], params["y0"], CellZ>>]),
              sigma |-> sigma_after, avg_sigma |-> avg_after,
              fit |-> [outcome |-> "ok", call |-> call,
                       params |-> params, err |-> err]]

-----------------------------------------------------------------------------
(* find_tip_coordination *)

\* no Atoms object, and no call yet
NoAtoms == [state |-> "none"]

NoRet == [name |-> "none", outcome |-> "none"]

\* a.cell[1,1]
CellYY == 2

\* the two sides with the atoms at mid-height counted to both
SideWithMid(at, bulk_nn, side) ==
    { i \in DOMAIN at :
        /\ at[i].nn < bulk_nn
        /\ at[i].g = 1
        /\ IF side = "above" THEN 2 * at[i].y >= CellYY ELSE 2 * at[i].y <= CellYY }

\* the indices i of the boolean array (nn < bulk_nn) & (g == 1) & (y > mid),
\* or with y < mid for the side "below"; mid is a.cell[1,1]/2.0
Side(at, bulk_nn, side) ==
    { i \in DOMAIN at :
        /\ at[i].nn < bulk_nn
        /\ at[i].g = 1
        /\ IF side = "above" THEN 2 * at[i].y > CellYY ELSE 2 * at[i].y < CellYY }

\* the index of the smallest x
BondOfMinX(at, S) ==
    IF S = {} THEN [outcome |-> "ValueError", index |-> -1]
    ELSE [outcome |-> "ok",
          index |-> CHOOSE i \in S : \A j \in S : at[i].x <= at[j].x]

\* argmax of an empty selection taken to be 0
BondOrFirst(at, S) ==
    IF S = {} THEN [outcome |-> "ok", index |-> 0]
    ELSE [outcome |-> "ok",
          index |-> CHOOSE i \in S : \A j \in S :
                       at[i].x > at[j].x \/ (at[i].x = at[j].x /\ i <= j)]

\* side.nonzero()[0][a.positions[side, 0].argmax()]: argmax raises
\* ValueError on an empty selection, and returns the first of equal maxima
Bond(at, S) ==
    IF S = {} THEN [outcome |-> "ValueError", index |-> -1]
    ELSE [outcome |-> "ok",
          index |-> CHOOSE i \in S : \A j \in S :
                       at[i].x > at[j].x \/ (at[i].x = at[j].x /\ i <= j)]

\* find_tip_coordination(a, bulk_nn=bulk_nn): the Atoms object after the call
\* and what the call returned or raised
find_tip_coordination(a, bulk_nn) ==
    LET above == Side(a.at, bulk_nn, "above")
        below == Side(a.at, bulk_nn, "below")
        bond1 == Bond(a.at, above)
        bond2 == Bond(a.at, below)
        arrays == [a EXCEPT !.above = above, !.below = below]
        args  == [bulk_nn |-> bulk_nn, before |-> a]
    IN  IF bond1.outcome # "ok"
        THEN [atoms |-> arrays,
              ret |-> [name |-> "find_tip_coordination", args |-> args,
                       outcome |-> bond1.outcome, value |-> <<>>]]
        ELSE IF bond2.outcome # "ok"
        THEN [atoms |-> arrays,
              ret |-> [name |-> "find_tip_coordination", args |-> args,
                       outcome |-> bond2.outcome, value |-> <<>>]]
        ELSE [atoms |-> [arrays EXCEPT !.bonds = <<bond1.index, bond2.index>>],
              ret |-> [name |-> "find_tip_coordination", args |-> args,
                       outcome |-> "ok", value |-> <<bond1.index, bond2.index>>]]

-----------------------------------------------------------------------------
(* The thin strip: strain, energy release rate, stress intensity factor *)

QDiv(p, q) == Q(p[1] * q[2], p[2] * q[1])

QLess(p, q) == p[1] * q[2] < q[1] * p[2]

\* positions[:, 1].max() of a non-empty array
MaxOf(y) == CHOOSE v \in { y[i] : i \in DOMAIN y } :
                \A i \in DOMAIN y : ~QLess(v, y[i])

\* positions[:, 1].min()
MinOf(y) == CHOOSE v \in { y[i] : i \in DOMAIN y } :
                \A i \in DOMAIN y : ~QLess(y[i], v)

\* current_height / orig_height - 1.0
StrainOf(y, orig_height) ==
    QSub(QDiv(QSub(MaxOf(y), MinOf(y)), orig_height), Q(1, 1))

\* strain_to_G(strain, E, nu, orig_height)
strain_to_G(strain, Em, nu, orig_height) ==
    QMul(QMul(QMul(QDiv(QMul(Q(1, 2), Em), QSub(Q(1, 1), QMul(nu, nu))),
                   strain), strain), orig_height)

\* get_strain(atoms): the strain, stored as atoms.info['strain']
get_strain(a) ==
    LET strain == StrainOf(a.y, a.info["OrigHeight"])
    IN  [atoms |-> [a EXCEPT !.info = Update(a.info, [strain |-> strain])],
         value |-> strain]

\* get_energy_release_rate(atoms): G, stored as atoms.info['G']
get_energy_release_rate(a) ==
    LET s  == get_strain(a)
        G  == strain_to_G(s.value, s.atoms.info["YoungsModulus"],
                          s.atoms.info["PoissonRatio_yx"],
                          s.atoms.info["OrigHeight"])
    IN  [atoms |-> [s.atoms EXCEPT !.info = Update(s.atoms.info, [G |-> G])],
         value |-> G]

\* get_stress_intensity_factor(atoms): after get_energy_release_rate the
\* line K = sqrt(G*Ep) looks up the name sqrt, which the module neither
\* defines nor imports (it imports math and numpy as np): NameError
get_stress_intensity_factor(a) ==
    LET g == get_energy_release_rate(a)
    IN  [atoms |-> g.atoms,
         ret |-> [name |-> "get_stress_intensity_factor",
                  args |-> [before |-> a],
                  outcome |-> "NameError", value |-> <<>>]]

\* ConstantStrainRate.adjust_positions(oldpos, newpos), on the constraint c
\* and with newpos the positions of the atoms: the y of the masked atoms
\* times alpha
adjust_positions(c, y) ==
    LET current_strain == StrainOf(y, c.orig_height)
        new_strain     == QAdd(current_strain, c.delta_strain)
        alpha          == QDiv(QAdd(Q(1, 1), new_strain),
                               QAdd(Q(1, 1), current_strain))
    IN  [i \in DOMAIN y |-> IF i \in c.mask THEN QMul(y[i], alpha) ELSE y[i]]

-----------------------------------------------------------------------------
(* CubicCrystalCrack.scale_displacements *)

\* a/d >= 0 brought to m * 2^e with m of p significant bits: <<a, d, e>> with
\* 2^(p-1) <= a/d < 2^p
RECURSIVE Normal(_, _, _, _)
Normal(a, d, e, p) ==
    IF a >= Pow2(p) * d THEN Normal(a, 2 * d, e + 1, p)
    ELSE IF a < Pow2(p - 1) * d THEN Normal(2 * a, d, e - 1, p)
    ELSE <<a, d, e>>

\* the rational q rounded to p significant bits, ties to even
RoundQ(q, p) ==
    IF q[1] = 0 THEN q
    ELSE LET n   == Normal(Abs(q[1]), q[2], 0, p)
             m   == n[1] \div n[2]
             rem == n[1] % n[2]
             up  == (2 * rem > n[2]) \/ (2 * rem = n[2] /\ m % 2 = 1)
             k   == Sgn(q[1]) * (IF up THEN m + 1 ELSE m)
         IN  IF n[3] >= 0 THEN Q(k * Pow2(n[3]), 1) ELSE Q(k, Pow2(-n[3]))

\* the floating-point result of an operation whose exact result is q
FlQ(q) == IF prec = 0 THEN q ELSE RoundQ(q, prec)

\* ref + new_k/old_k*x: the position scaled, not the displacement
ScalePosition(x, ref, old_k, new_k) ==
    FlQ(QAdd(ref, FlQ(QMul(FlQ(QDiv(new_k, old_k)), x))))

\* ref + new_k/old_k*(x - ref), every operation rounded
ScaleOne(x, ref, old_k, new_k) ==
    FlQ(QAdd(ref, FlQ(QMul(FlQ(QDiv(new_k, old_k)), FlQ(QSub(x, ref))))))

\* scale_displacements(x, y, ref_x, ref_y, old_k, new_k)
scale_displacements(x, y, ref_x, ref_y, old_k, new_k) ==
    <<ScaleOne(x, ref_x, old_k, new_k), ScaleOne(y, ref_y, old_k, new_k)>>

-----------------------------------------------------------------------------
(* neighbours.mic *)

\* the sum of three rationals
QSum3(a, b, c) == QAdd(QAdd(a, b), c)

\* np.dot(v, M) for a vector v and a 3x3 matrix M: sum over i of v[i]*M[i][j]
VecMat(v, M) ==
    [j \in 1..3 |-> QSum3(QMul(v[1], M[1][j]), QMul(v[2], M[2][j]),
                          QMul(v[3], M[3][j]))]

VecSub(u, v) == [j \in 1..3 |-> QSub(u[j], v[j])]

\* the 2x2 minor of M without row i and column j, with its sign
Cofactor(M, i, j) ==
    LET r1 == (i % 3) + 1
        r2 == ((i + 1) % 3) + 1
        c1 == (j % 3) + 1
        c2 == ((j + 1) % 3) + 1
    IN  QSub(QMul(M[r1][c1], M[r2][c2]), QMul(M[r1][c2], M[r2][c1]))

Det3(M) ==
    QSum3(QMul(M[1][1], Cofactor(M, 1, 1)), QMul(M[1][2], Cofactor(M, 1, 2)),
          QMul(M[1][3], Cofactor(M, 1, 3)))

\* np.linalg.inv(cell), for a cell that is not singular
Inverse(M) == [i \in 1..3 |-> [j \in 1..3 |-> QDiv(Cofactor(M, j, i), Det3(M))]]

\* np.round of one number: to the nearest integer, halves to the even one
RoundHalfEven(q) ==
    LET fl == IF q[1] >= 0 THEN q[1] \div q[2] ELSE -((-q[1] + q[2] - 1) \div q[2])
        twice == 2 * (q[1] - fl * q[2])
    IN  IF twice > q[2] \/ (twice = q[2] /\ fl % 2 # 0) THEN Q(fl + 1, 1)
        ELSE Q(fl, 1)

\* rec *= np.array(pbc, dtype=int).reshape(3,1): row i of rec times pbc[i]
MaskRows(rec, pbc) ==
    [i \in 1..3 |-> [j \in 1..3 |-> IF pbc[i] THEN rec[i][j] ELSE Q(0, 1)]]

\* mic(dr, cell, pbc) for one vector dr of the array
mic(dr, cell, pbc) ==
    LET inv == Inverse(cell)
        rec == IF pbc = None THEN inv ELSE MaskRows(inv, pbc)
        s   == VecMat(dr, rec)
        dri == [j \in 1..3 |-> RoundHalfEven(s[j])]
    IN  VecSub(dr, VecMat(dri, cell))

-----------------------------------------------------------------------------
(* The inputs of the cracks *)

\* the coefficients a11 .. a66 whose characteristic quartic
\* a11 x^4 - 2 a16 x^3 + (2 a12 + a66) x^2 - 2 a26 x + a22 has roots the
\* model knows, and the degenerate ones with a11 = 0
Coefficients ==
    { [a11 |-> 2, a22 |-> Expand(2, r)[5], a12 |-> a12,
       a16 |-> -(Expand(2, r)[2] \div 2), a26 |-> -(Expand(2, r)[4] \div 2),
       a66 |-> Expand(2, r)[3] - 2 * a12] : r \in RootFamilies, a12 \in 0..1 }
    \cup { [a11 |-> 0, a22 |-> 1, a12 |-> a12, a16 |-> 0, a26 |-> 0, a66 |-> 1]
           : a12 \in 0..1 }

\* largest surface energy passed to k1g
MaxGamma == 2

SurfaceEnergies == -1..MaxGamma

\* crack_surface and crack_front: lattice directions and the zero vector
CrackDirs ==
    { <<0, 0, 0>>, <<1, 0, 0>>, <<0, 1, 0>>, <<0, 0, 1>>,
      <<1, 1, 0>>, <<1, -1, 0>>, <<1, 1, 1>>, <<1, 1, -2>> }

PLANE_STRAIN == "plane strain"

PLANE_STRESS == "plane stress"

-----------------------------------------------------------------------------
(* The calls on a CubicElasticModuli object *)

vars == <<prec, E, op, crack, kcall, cc, info, fit, mem, atoms, ret>>

Call(name, A, r) == [name |-> name, A |-> A, outcome |-> r.outcome]

\* no k1g call yet
NoCall == [surface_energy |-> 0, outcome |-> "none", radicand |-> 0, ret |-> 0]

\* no CubicCrystalCrack constructed yet
NoCrystal == [state |-> "none"]

\* an attribute self.crack that is not set
AbsentCrack == [NewCrack EXCEPT !.state = "absent"]

\* el.rotate(A)
Rotate(A) ==
    /\ prec = 0 \/ Representable(A)
    /\ LET r == rotate(E, A)
       IN  /\ E' = r.obj
           /\ op' = Call("rotate", A, r)
    /\ UNCHANGED <<prec, crack, kcall, cc, info, fit, mem, atoms, ret>>

\* el._rotate_explicit(A)
RotateExplicit(A) ==
    /\ prec = 0
    /\ LET r == rotate_explicit(E, A)
       IN  /\ E' = r.obj
           /\ op' = Call("rotate_explicit", A, r)
    /\ UNCHANGED <<prec, crack, kcall, cc, info, fit, mem, atoms, ret>>

Init ==
    /\ prec = 0
    /\ \E c \in ElasticSet :
          /\ E = NewModuli(c[1], c[2], c[3])
          /\ op = [name |-> "init", A |-> Identity, outcome |-> "ok"]
    /\ crack = AbsentCrack
    /\ kcall = NoCall
    /\ cc = NoCrystal
    /\ info = NoInfo
    /\ fit = NoFit
    /\ mem = NoArrays
    /\ atoms = NoAtoms
    /\ ret = NoRet

Next ==
    \/ \E A \in RotArgs : Rotate(A)
    \/ \E A \in RotArgs : RotateExplicit(A)

Spec == Init /\ [][Next]_vars

\* the same object computed in floating point
InitFloat ==
    /\ prec = Prec
    /\ \E c \in FloatElasticSet :
          /\ E = NewModuli(c[1], c[2], c[3])
          /\ op = [name |-> "init", A |-> Identity, outcome |-> "ok"]
    /\ crack = AbsentCrack
    /\ kcall = NoCall
    /\ cc = NoCrystal
    /\ info = NoInfo
    /\ fit = NoFit
    /\ mem = NoArrays
    /\ atoms = NoAtoms
    /\ ret = NoRet

NextFloat == \E A \in RotArgs : Rotate(A)

SpecFloat == InitFloat /\ [][NextFloat]_vars

-----------------------------------------------------------------------------
(* The calls on a RectilinearAnisotropicCrack object *)

\* crack.set_plane_stress(a11, a22, a12, a16, a26, a66) on a new object; r is
\* what the root finder returns in _init_crack
SetPlaneStress(a) ==
    /\ crack.state = "new"
    /\ LET c == PlaneStress(crack, a.a11, a.a22, a.a12, a.a16, a.a26, a.a66)
       IN  \E r \in PolyRoots(Quartic(c)) : crack' = init_crack(c, r)
    /\ UNCHANGED <<prec, E, op, kcall, cc, info, fit, mem, atoms, ret>>

\* crack.set_plane_strain(b11, b22, b33, b12, b13, b23, b16, b26, b36, b66) on
\* a new object, with b33 = 1 and b11 .. b26 chosen to give the coefficients a
SetPlaneStrain(a, b13, b23, b36) ==
    /\ crack.state = "new"
    /\ LET c == PlaneStrain(crack, a.a11 + b13 * b13, a.a22 + b23 * b23, 1,
                            a.a12 + b13 * b23, b13, b23,
                            a.a16 + b13 * b36, a.a26 + b23 * b36, b36, a.a66)
       IN  \E r \in PolyRoots(Quartic(c)) : crack' = init_crack(c, r)
    /\ UNCHANGED <<prec, E, op, kcall, cc, info, fit, mem, atoms, ret>>

\* crack.k1g(surface_energy)
K1g(surface_energy) ==
    /\ crack.state = "configured"
    /\ LET r == k1g(crack, surface_energy)
       IN  kcall' = [surface_energy |-> surface_energy, outcome |-> r.outcome,
                     radicand |-> Radicand(crack, surface_energy), ret |-> r.ret]
    /\ UNCHANGED <<prec, E, op, crack, cc, info, fit, mem, atoms, ret>>

\* crack = RectilinearAnisotropicCrack()
NewObject ==
    /\ crack.state # "new"
    /\ crack' = NewCrack
    /\ kcall' = NoCall
    /\ UNCHANGED <<prec, E, op, cc, info, fit, mem, atoms, ret>>

InitAniso ==
    /\ prec = 0
    /\ E = NewModuli(MaxC, 1, 1)
    /\ op = [name |-> "init", A |-> Identity, outcome |-> "ok"]
    /\ crack = NewCrack
    /\ kcall = NoCall
    /\ cc = NoCrystal
    /\ info = NoInfo
    /\ fit = NoFit
    /\ mem = NoArrays
    /\ atoms = NoAtoms
    /\ ret = NoRet

NextAniso ==
    \/ \E a \in Coefficients : SetPlaneStress(a)
    \/ \E a \in Coefficients, b13 \in 0..1, b23 \in 0..1, b36 \in 0..1 :
          SetPlaneStrain(a, b13, b23, b36)
    \/ \E g \in SurfaceEnergies : K1g(g)
    \/ NewObject

SpecAniso == InitAniso /\ [][NextAniso]_vars

-----------------------------------------------------------------------------
(* The constructor of CubicCrystalCrack *)

\* the end of the constructor: self.crack after set_plane_stress or
\* set_plane_strain with the entries of the compliance matrix S6, for each
\* order in which the root finder may return the roots
Configure(stress_state, S6) ==
    LET c == IF stress_state = PLANE_STRESS
             THEN PlaneStress(NewCrack, S6[1][1], S6[2][2], S6[1][2],
                              S6[1][6], S6[2][6], S6[6][6])
             ELSE PlaneStrain(NewCrack, S6[1][1], S6[2][2], S6[3][3],
                              S6[1][2], S6[1][3], S6[2][3],
                              S6[1][6], S6[2][6], S6[3][6], S6[6][6])
    IN  { init_crack(c, r) : r \in PolyRoots(Quartic(c)) }

\* CubicCrystalCrack(C11, C12, C44, crack_surface, crack_front, stress_state)
Construct(C11, C12, C44, crack_surface, crack_front, stress_state) ==
    /\ cc.state = "none"
    /\ LET e         == NewModuli(C11, C12, C44)
           third_dir == Cross(crack_surface, crack_front)
           A0        == Directions(third_dir, crack_surface, crack_front)
           flip      == DetNegative(A0)
           third     == IF flip THEN <<-third_dir[1], -third_dir[2], -third_dir[3]>>
                        ELSE third_dir
           A         == Directions(third, crack_surface, crack_front)
           r         == rotate(e, A)
           S6        == compliance(r.obj)
           args      == [crack_surface |-> crack_surface, crack_front |-> crack_front,
                         stress_state |-> stress_state, A |-> A, flipped |-> flip]
       IN  /\ E' = r.obj
           /\ op' = Call("rotate", A, r)
           /\ IF r.outcome # "ok"
              THEN /\ crack' = AbsentCrack
                   /\ cc' = [state |-> "failed", error |-> r.outcome, call |-> args]
              ELSE IF S6.outcome # "ok"
              THEN /\ crack' = NewCrack
                   /\ cc' = [state |-> "failed", error |-> S6.outcome, call |-> args]
              ELSE \E k \in Configure(stress_state, S6.S6) :
                      /\ crack' = k
                      /\ cc' = [state |-> IF k.error = "none" THEN "constructed"
                                          ELSE "failed",
                                error |-> k.error, call |-> args]
    /\ UNCHANGED <<prec, kcall, info, fit, mem, atoms, ret>>

InitCrystal == Init

NextCrystal ==
    \E c \in ElasticSet, s \in CrackDirs, f \in CrackDirs,
       st \in {PLANE_STRAIN, PLANE_STRESS} : Construct(c[1], c[2], c[3], s, f, st)

SpecCrystal == InitCrystal /\ [][NextCrystal]_vars

-----------------------------------------------------------------------------
(* Properties of CubicElasticModuli *)

\* the square of entry (i, j) of A.A^T - I, a NaN when a row is NaN
Deviation2(A, i, j) ==
    LET P == PSub(RowDot(A, i, j), PInt(IF i = j THEN A.n[i+1] ELSE 0))
    IN  [c |-> PMul(P, P), d |-> A.n[i+1] * A.n[j+1]]

\* tol^2
Tol2 == [c |-> <<0, 0, 0, 0, 1>>, d |-> 1]

SomeDeviationAbove(A) ==
    \E i \in 0..2, j \in 0..2 :
        ~IsNaN(Deviation2(A, i, j)) /\ NCmp(Deviation2(A, i, j), Tol2) > 0

AllDeviationsWithin(A) ==
    \A i \in 0..2, j \in 0..2 :
        ~IsNaN(Deviation2(A, i, j)) /\ NCmp(Deviation2(A, i, j), Tol2) <= 0

\* C1, the state part: rotate raises on every matrix with a deviation above
\* tol and accepts every matrix whose deviations are all within tol
C1_Decision ==
    op.name = "rotate" =>
        /\ SomeDeviationAbove(op.A) => op.outcome = "RuntimeError"
        /\ AllDeviationsWithin(op.A) => op.outcome = "ok"

\* C1, the step part: a call that raises leaves the stored constants alone
C1_Frame ==
    (op'.name = "rotate" /\ op'.outcome = "RuntimeError") =>
        stiffness(E') = stiffness(E)

\* C1: rotate(A) raises for every A with an entry of A.A^T - I above 1e-6 in
\* absolute value and accepts every A whose deviations are all <= 1e-6; when
\* it raises, the stored C11_rot, C12_rot and C44_rot are unchanged
C1_RotateRejects == [](C1_Decision) /\ [][C1_Frame]_vars

\* rotate has raised on a matrix 4e-6 off the identity, after a rotation
\* that stored constants different from the unrotated ones
C1_Witness ==
    /\ op.name = "rotate"
    /\ op.outcome = "RuntimeError"
    /\ op.A = NearIdentity(2, 2)
    /\ ~NEq(E.C11_rot[1], NInt(E.C11))

\* rotate has accepted a matrix whose deviation is exactly tol
C1_WitnessAtTol ==
    /\ op.name = "rotate"
    /\ op.outcome = "ok"
    /\ op.A = NearIdentity(1, 1)

\* |x - y| <= tol for two numbers, False when one is NaN
Within(x, y) ==
    /\ ~IsNaN(x)
    /\ ~IsNaN(y)
    /\ PSign(PSub(PAbs(PSub(PScale(y.d, x.c), PScale(x.d, y.c))),
                  PScale(x.d * y.d, tol))) <= 0

\* the rows of A are exactly orthonormal
Orthonormal(A) ==
    \A i \in 0..2, j \in 0..2 :
        /\ A.n[i+1] > 0
        /\ RowDot(A, i, j) = PInt(IF i = j THEN A.n[i+1] ELSE 0)

\* the nine constants of two results agree slot by slot within tol
SameConstants(C, D) ==
    \A q \in 1..3, p \in 1..3 : Within(C[q][p], D[q][p])

\* C2: for an orthonormal A, rotate(A) and _rotate_explicit(A) return the
\* same nine constants, slot by slot, to within 1e-6
C2_ClosedFormMatchesExplicit ==
    (op.outcome = "ok" /\ Orthonormal(op.A)) =>
        /\ op.name = "rotate" =>
              SameConstants(stiffness(E), stiffness(rotate_explicit(E, op.A).obj))
        /\ op.name = "rotate_explicit" =>
              SameConstants(stiffness(rotate(E, op.A).obj), stiffness(E))

\* _rotate_explicit has returned for the [111]/[-1-12]/[1-10] orientation
\* of a crystal that is not isotropic
C2_Witness ==
    /\ op.name = "rotate_explicit"
    /\ op.outcome = "ok"
    /\ op.A = Directions(<<1, 1, 1>>, <<-1, -1, 2>>, <<1, -1, 0>>)
    /\ E.al # 0

\* the three entries of a stored array are exactly the integer k
AllExactly(arr, k) == \A p \in 1..3 : arr[p] = NInt(k)

\* C3 as stated: after the constructor and after rotate(identity) the stored
\* constants are exactly (C11, C11, C11), (C12, C12, C12), (C44, C44, C44)
C3_IdentityExact ==
    (op.name \in {"init", "rotate"} /\ op.A = Identity /\ op.outcome = "ok") =>
        /\ AllExactly(E.C11_rot, E.C11)
        /\ AllExactly(E.C12_rot, E.C12)
        /\ AllExactly(E.C44_rot, E.C44)

\* the floating-point value of ((C12 + C44) + C44) + ((C11 - C12) - 2*C44)
RoundedC11(e) ==
    LET r(k) == IF prec = 0 THEN k ELSE RoundBits(k, prec)
    IN  r(r(r(e.C12 + e.C44) + e.C44) + r(r(e.C11 - e.C12) - r(2 * e.C44)))

\* every intermediate sum of RoundedC11 fits the significand
NoRounding(e) ==
    \/ prec = 0
    \/ \A k \in { e.C12 + e.C44, e.C12 + 2 * e.C44, e.C11 - e.C12,
                  e.C11 - e.C12 - 2 * e.C44, e.C11 } : Abs(k) < Pow2(prec)

\* C3 as amended: C12_rot and C44_rot are exact; the three entries of
\* C11_rot are the floating-point sum above, which is C11 when no operation
\* rounds and is within 6 * 2^-prec * (|C11| + |C12| + |C44|) of it otherwise
C3_IdentityUpToRounding ==
    (op.name \in {"init", "rotate"} /\ op.A = Identity /\ op.outcome = "ok") =>
        /\ AllExactly(E.C12_rot, E.C12)
        /\ AllExactly(E.C44_rot, E.C44)
        /\ AllExactly(E.C11_rot, RoundedC11(E))
        /\ NoRounding(E) => AllExactly(E.C11_rot, E.C11)
        /\ prec > 0 =>
              Abs(RoundedC11(E) - E.C11) * Pow2(prec)
                 <= 6 * (Abs(E.C11) + Abs(E.C12) + Abs(E.C44))

\* rotate(identity) has stored a C11_rot that is not C11
C3_Witness ==
    /\ op.name = "rotate"
    /\ op.A = Identity
    /\ op.outcome = "ok"
    /\ E.C11_rot[1] # NInt(E.C11)


-----------------------------------------------------------------------------
(* The calls of fit_crack_stress_field *)

\* atoms.info after an earlier fit
PriorInfo == [K |-> 1, sigma0 |-> <<0, 0, 0>>, CrackPos |-> <<0, 0, CellZ>>]

InitialChoices ==
    { None, [x0 |-> 0, y0 |-> 0], [K |-> 2, x0 |-> 3], [x0 |-> 5, sxx0 |-> 2] }

FixChoices == { None, [y0 |-> 0], [K |-> 1, x0 |-> 0, y0 |-> 0] }

RRanges == { None, <<0, 50>>, <<5, 10>>, <<10, 50>> }

\* how far the solver moves each variable from its start value
MaxShift == 1

\* a covariance matrix, or None for a singular one
Covariances == { None, <<"cov_x">> }

\* the status ier of leastsq: 1 to 4 are successes
SolverCodes == 0..8

\* params, err = fit_crack_stress_field(atoms, r_range, initial_params,
\*                                      fix_params, sigma): one call, on an
\* atoms object whose info is new or holds the entries of an earlier fit
Fit(r_range, initial_params, fix_params, shift, cov, ier) ==
    /\ fit.outcome = "none"
    /\ LET r == fit_crack_stress_field(info, r_range, initial_params, fix_params,
                                       Sigma, None, Q(1, 1), shift, cov, ier)
       IN  /\ info' = r.info
           /\ fit' = r.fit
           /\ mem' = [sigma |-> r.sigma, avg_sigma |-> r.avg_sigma,
                      calls |-> mem.calls + 1, updates |-> mem.updates]
    /\ UNCHANGED <<prec, E, op, crack, kcall, cc, atoms, ret>>

InitFit ==
    /\ prec = 0
    /\ E = NewModuli(MaxC, 1, 1)
    /\ op = [name |-> "init", A |-> Identity, outcome |-> "ok"]
    /\ crack = AbsentCrack
    /\ kcall = NoCall
    /\ cc = NoCrystal
    /\ info = NoInfo \/ info = PriorInfo
    /\ fit = NoFit
    /\ mem = NoArrays
    /\ atoms = NoAtoms
    /\ ret = NoRet

NextFit ==
    \E r_range \in RRanges, initial_params \in InitialChoices,
       fix_params \in FixChoices, shift \in 0..MaxShift,
       cov \in Covariances, ier \in SolverCodes :
         Fit(r_range, initial_params, fix_params, shift, cov, ier)

SpecFit == InitFit /\ [][NextFit]_vars

-----------------------------------------------------------------------------
(* A run of fit_crack_stress_field calls that share one accumulator *)

\* the stresses the calculator observes at the successive steps of a run
Observed ==
    << [a \in AtomIds |-> Stress(4 * a, 2)],
       [a \in AtomIds |-> Stress(8, 4 * a)],
       [a \in AtomIds |-> Stress(0, 6)] >>

\* the accumulator the caller starts the run with
Accumulators ==
    { [a \in AtomIds |-> Stress(0, 0)], [a \in AtomIds |-> Stress(16, 8 * a)] }

\* exp(-avg_decay)
Weights == { Q(1, 2), Q(3, 4) }

ChainFix == { None, [y0 |-> 0] }

ChainRanges == { None, <<10, 50>> }

\* params, err = fit_crack_stress_field(atoms, r_range, fix_params=fix_params,
\*                                      sigma=sigma, avg_sigma=avg_sigma,
\*                                      avg_decay=avg_decay): the next call of
\* the run, with the stresses of its step and the shared accumulator
FitAvg(r_range, fix_params, w, shift) ==
    /\ mem.calls < Len(Observed)
    /\ mem.avg_sigma # None
    /\ LET r == fit_crack_stress_field(info, r_range, None, fix_params,
                                       Observed[mem.calls + 1], mem.avg_sigma, w,
                                       shift, <<"cov_x">>, 1)
       IN  /\ info' = r.info
           /\ fit' = r.fit
           /\ mem' = [sigma |-> r.sigma, avg_sigma |-> r.avg_sigma,
                      calls |-> mem.calls + 1, updates |-> mem.updates + 1]
    /\ UNCHANGED <<prec, E, op, crack, kcall, cc, atoms, ret>>

InitAvg ==
    /\ prec = 0
    /\ E = NewModuli(MaxC, 1, 1)
    /\ op = [name |-> "init", A |-> Identity, outcome |-> "ok"]
    /\ crack = AbsentCrack
    /\ kcall = NoCall
    /\ cc = NoCrystal
    /\ info = NoInfo \/ info = PriorInfo
    /\ fit = NoFit
    /\ \E avg \in Accumulators :
          mem = [sigma |-> Sigma, avg_sigma |-> avg, calls |-> 0, updates |-> 0]
    /\ atoms = NoAtoms
    /\ ret = NoRet

NextAvg ==
    \E r_range \in ChainRanges, fix_params \in ChainFix, w \in Weights,
       shift \in 0..MaxShift :
         FitAvg(r_range, fix_params, w, shift)

SpecAvg == InitAvg /\ [][NextAvg]_vars

-----------------------------------------------------------------------------
(* The calls of find_tip_coordination *)

\* an atom of the cluster: its position, the number of neighbours the
\* neighbour list counts for it, and its group
TipAtom == [x : {0, 1}, y : {0, 1, 2}, nn : {3, 4}, g : {0, 1}]

\* clusters of three atoms, indexed from 0
Clusters == [0..2 -> TipAtom]

\* a.info['bond1'], a.info['bond2']: absent, or left by an earlier call
PriorBonds == { <<>>, <<2, 0>> }

BulkChoices == {4, 5}

FindTip(bulk_nn) ==
    /\ ret.name = "none"
    /\ LET r == find_tip_coordination(atoms, bulk_nn)
       IN  /\ atoms' = r.atoms
           /\ ret' = r.ret
    /\ UNCHANGED <<prec, E, op, crack, kcall, cc, info, fit, mem>>

InitTip ==
    /\ prec = 0
    /\ E = NewModuli(MaxC, 1, 1)
    /\ op = [name |-> "init", A |-> Identity, outcome |-> "ok"]
    /\ crack = AbsentCrack
    /\ kcall = NoCall
    /\ cc = NoCrystal
    /\ info = NoInfo
    /\ fit = NoFit
    /\ mem = NoArrays
    /\ \E at \in Clusters, bonds \in PriorBonds :
          atoms = [state |-> "cluster", at |-> at, above |-> {}, below |-> {},
                   bonds |-> bonds]
    /\ ret = NoRet

NextTip == \E bulk_nn \in BulkChoices : FindTip(bulk_nn)

SpecTip == InitTip /\ [][NextTip]_vars

-----------------------------------------------------------------------------
(* A strip under a constant strain rate *)

\* calls of adjust_positions in a run
MaxSteps == 2

\* atoms.positions[:, 1]
StripHeights ==
    { <<Q(-1, 1), Q(0, 1), Q(1, 1)>>, <<Q(0, 1), Q(1, 1), Q(2, 1)>>,
      <<Q(1, 1), Q(2, 1), Q(4, 1)>> }

\* mask: Ellipsis (every atom) or some of the atoms
StripMasks == { {1, 2, 3}, {1, 3}, {3}, {2} }

DeltaStrains == { Q(1, 2), Q(1, 4), Q(-1, 4) }

PoissonRatios == { Q(0, 1), Q(1, 4) }

\* newpos of the integrator step handed to the constraint
AdjustPositions ==
    /\ atoms.steps < MaxSteps
    /\ atoms' = [atoms EXCEPT !.y = adjust_positions(atoms.constraint, atoms.y),
                              !.steps = atoms.steps + 1]
    /\ ret' = [name |-> "adjust_positions", args |-> [before |-> atoms],
               outcome |-> "ok", value |-> <<>>]
    /\ UNCHANGED <<prec, E, op, crack, kcall, cc, info, fit, mem>>

GetStressIntensityFactor ==
    /\ LET r == get_stress_intensity_factor(atoms)
       IN  /\ atoms' = r.atoms
           /\ ret' = r.ret
    /\ UNCHANGED <<prec, E, op, crack, kcall, cc, info, fit, mem>>

InitStrip ==
    /\ prec = 0
    /\ E = NewModuli(MaxC, 1, 1)
    /\ op = [name |-> "init", A |-> Identity, outcome |-> "ok"]
    /\ crack = AbsentCrack
    /\ kcall = NoCall
    /\ cc = NoCrystal
    /\ info = NoInfo
    /\ fit = NoFit
    /\ mem = NoArrays
    /\ \E y \in StripHeights, mask \in StripMasks, delta \in DeltaStrains,
          nu \in PoissonRatios :
          atoms = [state |-> "strip", y |-> y, steps |-> 0,
                   info |-> [OrigHeight |-> Q(2, 1), YoungsModulus |-> Q(3, 1),
                             PoissonRatio_yx |-> nu],
                   constraint |-> [orig_height |-> Q(2, 1),
                                   delta_strain |-> delta, mask |-> mask]]
    /\ ret = NoRet

NextStrip == AdjustPositions \/ GetStressIntensityFactor

SpecStrip == InitStrip /\ [][NextStrip]_vars

-----------------------------------------------------------------------------
(* The calls of scale_displacements *)

\* positions, all of them floating-point numbers of three significant bits
Coords == { Q(0, 1), Q(1, 1), Q(5, 1), Q(7, 2), Q(-3, 4) }

YCoords == { Q(0, 1), Q(3, 2) }

\* stress intensity factors, non-zero
Ks == { Q(1, 1), Q(3, 1), Q(5, 2), Q(-2, 1) }

\* x, y = scale_displacements(x, y, ref_x, ref_y, old_k, new_k)
Scale(x, y, ref_x, ref_y, old_k, new_k) ==
    /\ ret.name = "none"
    /\ LET args == [x |-> x, y |-> y, ref_x |-> ref_x, ref_y |-> ref_y,
                    old_k |-> old_k, new_k |-> new_k]
       IN  ret' = [name |-> "scale_displacements", outcome |-> "ok",
                   round |-> 1, first |-> args, args |-> args,
                   value |-> scale_displacements(x, y, ref_x, ref_y, old_k, new_k)]
    /\ UNCHANGED <<prec, E, op, crack, kcall, cc, info, fit, mem, atoms>>

\* x, y = scale_displacements(x, y, ref_x, ref_y, new_k, old_k) on the result
\* of the call before
ScaleBack ==
    /\ ret.name = "scale_displacements"
    /\ ret.round = 1
    /\ LET args == [x |-> ret.value[1], y |-> ret.value[2],
                    ref_x |-> ret.args.ref_x, ref_y |-> ret.args.ref_y,
                    old_k |-> ret.args.new_k, new_k |-> ret.args.old_k]
       IN  ret' = [name |-> "scale_displacements", outcome |-> "ok",
                   round |-> 2, first |-> ret.args, args |-> args,
                   value |-> scale_displacements(args.x, args.y, args.ref_x,
                                                 args.ref_y, args.old_k, args.new_k)]
    /\ UNCHANGED <<prec, E, op, crack, kcall, cc, info, fit, mem, atoms>>

InitScale ==
    /\ prec \in {0, Prec}
    /\ E = NewModuli(MaxC, 1, 1)
    /\ op = [name |-> "init", A |-> Identity, outcome |-> "ok"]
    /\ crack = AbsentCrack
    /\ kcall = NoCall
    /\ cc = NoCrystal
    /\ info = NoInfo
    /\ fit = NoFit
    /\ mem = NoArrays
    /\ atoms = NoAtoms
    /\ ret = NoRet

NextScale ==
    \/ \E x \in Coords, y \in YCoords, ref_x \in Coords, ref_y \in YCoords,
          old_k \in Ks, new_k \in Ks :
            Scale(x, y, ref_x, ref_y, old_k, new_k)
    \/ ScaleBack

SpecScale == InitScale /\ [][NextScale]_vars

-----------------------------------------------------------------------------
(* The calls of mic *)

QRow(a, b, c) == <<Q(a, 1), Q(b, 1), Q(c, 1)>>

\* simulation cells, their rows being the cell vectors: cubic, orthorhombic,
\* and two cells whose vectors are not at right angles
Cells ==
    { <<QRow(1, 0, 0), QRow(0, 1, 0), QRow(0, 0, 1)>>,
      <<QRow(2, 0, 0), QRow(0, 1, 0), QRow(0, 0, 3)>>,
      <<QRow(1, 0, 0), QRow(1, 1, 0), QRow(0, 0, 1)>>,
      <<QRow(2, 0, 0), QRow(1, 2, 0), QRow(0, 0, 2)>> }

\* the components of the distance vectors
DrCoords == { Q(-3, 2), Q(0, 1), Q(1, 2), Q(1, 1) }

Drs == { <<a, b, c>> : a \in DrCoords, b \in DrCoords, c \in DrCoords }

\* pbc: None, or three booleans
Pbcs == { None } \cup { <<a, b, c>> : a \in BOOLEAN, b \in BOOLEAN, c \in BOOLEAN }

\* dr = mic(dr, cell, pbc)
Mic(dr, cell, pbc) ==
    /\ ret.name = "none"
    /\ ret' = [name |-> "mic", outcome |-> "ok", round |-> 1,
               args |-> [dr |-> dr, cell |-> cell, pbc |-> pbc],
               value |-> mic(dr, cell, pbc)]
    /\ UNCHANGED <<prec, E, op, crack, kcall, cc, info, fit, mem, atoms>>

\* dr = mic(dr, cell, pbc) on the result of the call before
MicAgain ==
    /\ ret.name = "mic"
    /\ ret.round = 1
    /\ ret' = [name |-> "mic", outcome |-> "ok", round |-> 2,
               args |-> [ret.args EXCEPT !.dr = ret.value],
               value |-> mic(ret.value, ret.args.cell, ret.args.pbc)]
    /\ UNCHANGED <<prec, E, op, crack, kcall, cc, info, fit, mem, atoms>>

InitMic ==
    /\ prec = 0
    /\ E = NewModuli(MaxC, 1, 1)
    /\ op = [name |-> "init", A |-> Identity, outcome |-> "ok"]
    /\ crack = AbsentCrack
    /\ kcall = NoCall
    /\ cc = NoCrystal
    /\ info = NoInfo
    /\ fit = NoFit
    /\ mem = NoArrays
    /\ atoms = NoAtoms
    /\ ret = NoRet

NextMic ==
    \/ \E dr \in Drs, cell \in Cells, pbc \in Pbcs : Mic(dr, cell, pbc)
    \/ MicAgain

SpecMic == InitMic /\ [][NextMic]_vars

-----------------------------------------------------------------------------
(* CubicCrystalCrack: the constructor *)

Dot(u, v) == u[1]*v[1] + u[2]*v[2] + u[3]*v[3]

\* non-zero perpendicular directions and a known stress state
ValidCall(c) ==
    /\ Dot(c.crack_surface, c.crack_surface) # 0
    /\ Dot(c.crack_front, c.crack_front) # 0
    /\ Dot(c.crack_surface, c.crack_front) = 0
    /\ c.stress_state \in {PLANE_STRAIN, PLANE_STRESS}

\* C4: constructing a CubicCrystalCrack with valid inputs (elastic constants,
\* perpendicular crack_surface and crack_front, plane stress or plane strain)
\* completes without raising and leaves the crack coefficients a11 .. a66 and
\* the roots mu1, mu2 set.
C4_ConstructionCompletes ==
    (cc.state # "none" /\ ValidCall(cc.call))
        => (cc.state = "constructed" /\ crack.state = "configured")

\* every row of A has length one
UnitRows(A) ==
    \A i \in 0..2 : A.n[i+1] # 0 /\ PSign(PSub(RowDot(A, i, i), PInt(A.n[i+1]))) = 0

\* det(A) = 1: the numerator of the determinant is sqrt(n_0 n_1 n_2)
DetIsOne(A) ==
    /\ DetSign(A) > 0
    /\ PSign(PSub(PMul(DetNum(A), DetNum(A)), PInt(A.n[1] * A.n[2] * A.n[3]))) = 0

\* |crack_surface . crack_front| <= tol for the normalised rows 1 and 2 of A
PerpendicularWithinTol(A) == A.n[2] # 0 /\ A.n[3] # 0 /\ ~Exceeds(A, 1, 2)

\* C5: the orientation matrix A passed to rotate is always right-handed
\* (determinant > 0, and +1 for perpendicular inputs) with unit-length rows,
\* and when crack_surface and crack_front are not perpendicular within the
\* 1e-6 tolerance the construction fails with the rotation error.
C5_OrientationRightHanded ==
    cc.state # "none" =>
        LET A == cc.call.A
        IN  /\ ~HasNaN(A)
            /\ DetSign(A) > 0
            /\ UnitRows(A)
            /\ Dot(cc.call.crack_surface, cc.call.crack_front) = 0 => DetIsOne(A)
            /\ ~PerpendicularWithinTol(A) => cc.error = "RuntimeError"

-----------------------------------------------------------------------------
(* RectilinearAnisotropicCrack: the roots and k1g *)

\* the four roots can be split into two pairs z, conj(z)
FormPairs(r) ==
    /\ Len(r) = 4
    /\ \E f \in Perms4 : CEq(r[f[1]], CConj(r[f[2]])) /\ CEq(r[f[3]], CConj(r[f[4]]))

\* each pair stands at adjacent positions: (1, 2) and (3, 4)
AdjacentPairs(r) ==
    /\ Len(r) = 4
    /\ CEq(r[1], CConj(r[2]))
    /\ CEq(r[3], CConj(r[4]))

Initialised == crack.state \in {"coefficients", "configured"}

\* C6 as stated: _init_crack raises whenever the four roots do not form two
\* complex-conjugate pairs, and raises no pairing error whenever they do,
\* whatever order the root finder returns them in.
C6_PairsInAnyOrder ==
    Initialised =>
        /\ ~FormPairs(crack.roots) => crack.error # "none"
        /\ FormPairs(crack.roots) => crack.error # "Roots not in pairs."

\* C6: _init_crack raises whenever the four roots do not form two conjugate
\* pairs; it accepts them, taking mu1 and mu2 from positions 1 and 3, exactly
\* when each pair is returned at adjacent positions (1, 2) and (3, 4); the
\* same roots returned in another order raise "Roots not in pairs.".
C6_PairsAdjacent ==
    Initialised =>
        /\ ~FormPairs(crack.roots) => crack.error # "none"
        /\ AdjacentPairs(crack.roots) =>
              /\ crack.state = "configured"
              /\ crack.error = "none"
              /\ crack.par.mu1 = crack.roots[1]
              /\ crack.par.mu2 = crack.roots[3]
        /\ (Len(crack.roots) = 4 /\ ~AdjacentPairs(crack.roots)) =>
              /\ crack.state = "coefficients"
              /\ crack.error = "Roots not in pairs."

\* two different complex pairs, each adjacent, were accepted
C6_Witness ==
    /\ crack.state = "configured"
    /\ crack.roots[1].im # 0
    /\ crack.roots[3].im # 0
    /\ ~CEq(crack.roots[1], crack.roots[3])
    /\ ~CEq(crack.roots[1], crack.roots[4])

Negative(x) == x.kind = "-inf" \/ (x.kind = "finite" /\ x.num < 0)

\* y = k/den is the root of x = num/den down to the resolution 1/den
IsRootOf(y, x) ==
    /\ y.kind = "finite"
    /\ y.den = x.den
    /\ y.num >= 0
    /\ y.num * y.num <= x.num * x.den
    /\ x.num * x.den < (y.num + 1) * (y.num + 1)

\* C7: k1g fails with an error when the quantity under the square root is
\* negative, and otherwise returns its square root.
C7_K1gRoot ==
    kcall.outcome # "none" =>
        /\ Negative(kcall.radicand) => kcall.outcome = "ValueError"
        /\ ~Negative(kcall.radicand) =>
              /\ kcall.outcome = "ok"
              /\ IF kcall.radicand.kind = "finite"
                 THEN IsRootOf(kcall.ret, kcall.radicand)
                 ELSE kcall.ret = kcall.radicand

\* k1g failed on a negative radicand: a negative surface energy, the roots
\* stored being those of positive imaginary part
C7_Witness ==
    /\ kcall.outcome = "ValueError"
    /\ kcall.surface_energy < 0
    /\ Negative(kcall.radicand)
    /\ crack.par.mu1.im > 0
    /\ crack.par.mu2.im > 0

\* k1g returned the root of a positive radicand
C7_WitnessRoot ==
    /\ kcall.outcome = "ok"
    /\ kcall.radicand.kind = "finite"
    /\ kcall.radicand.num > 0

-----------------------------------------------------------------------------
(* fit_crack_stress_field: solver status, mask and fixed parameters *)

\* the solver ran and returned a status
Solved == fit.outcome # "none" /\ fit.outcome # "TypeError"

\* C8: whenever the least-squares solver returns a status other than a
\* success code (1, 2, 3 or 4), the call ends in a failure: it does not return
\* the solver's last iterate as fitted parameters and does not store it as K,
\* sigma0 and CrackPos in atoms.info.
C8_NonSuccessFails ==
    (Solved /\ fit.call.ier \notin 1..4)
        => (fit.outcome # "ok" /\ fit.params = None /\ info = fit.call.before)

\* the atoms at r_min <= r < r_max from the starting tip estimate
Annulus(p, r_range) ==
    IF r_range = None THEN AtomIds
    ELSE { a \in AtomIds :
             /\ r_range[1] <= 0 \/ Distance2(p, a) >= r_range[1] * r_range[1]
             /\ r_range[2] > 0 /\ Distance2(p, a) < r_range[2] * r_range[2] }

\* C9: with r_range = (r_min, r_max) the residual vector contains the stress
\* components of exactly the atoms whose distance r from the starting tip
\* estimate satisfies r_min <= r < r_max (an atom at r = r_min is included,
\* one at r = r_max is excluded); with r_range = None every atom contributes.
C9_ResidualOnAnnulus ==
    fit.outcome # "none" =>
        \A res \in fit.call.evals :
            DOMAIN res = Annulus(fit.call.params0, fit.call.r_range)

\* C10: every name of fix_params is excluded from the least-squares
\* variables, every residual is evaluated with the fixed value, the call
\* returns exactly the fix_params value for it (overriding initial_params and
\* atoms.info), and the error dictionary has entries only for the free
\* parameters.
C10_FixedParamsHeld ==
    fit.outcome # "none" =>
        /\ \A k \in DOMAIN fit.call.fix_params :
              /\ k \notin fit.call.var_params
              /\ \A res \in fit.call.evals : \A a \in DOMAIN res :
                    res[a].irwin_sigma.params[k] = fit.call.fix_params[k]
              /\ fit.outcome = "ok" => fit.params[k] = fit.call.fix_params[k]
        /\ fit.outcome = "ok" =>
              /\ DOMAIN fit.err \cap DOMAIN fit.call.fix_params = {}
              /\ DOMAIN fit.err = DOMAIN fit.params \ DOMAIN fit.call.fix_params

\* a fit returned with x0 fixed to a value that differs from the one in
\* initial_params and from the stored CrackPos, the solver having moved the
\* free parameters
C10_Witness ==
    /\ fit.outcome = "ok"
    /\ "x0" \in DOMAIN fit.call.fix_params
    /\ "x0" \in DOMAIN fit.call.initial_params
    /\ fit.call.initial_params["x0"] # fit.call.fix_params["x0"]
    /\ fit.call.r_range # None
    /\ \E k \in DOMAIN fit.err : fit.params[k] # fit.call.params0[k]

-----------------------------------------------------------------------------
(* fit_crack_stress_field: the running average of the stresses *)

\* r = w*avg + (1 - w)*observed, for rationals in lowest terms
IsWeightedMean(r, avg, observed, w) ==
    r[1] * (avg[2] * observed[2] * w[2])
        = r[2] * (w[1] * avg[1] * observed[2] + (w[2] - w[1]) * observed[1] * avg[2])

\* a call that was given an accumulator
AvgCall == mem'.calls = mem.calls + 1 /\ fit'.call.avg_sigma # None

\* C11: when avg_sigma is supplied, each call updates the accumulator in place
\* exactly once, to avg*exp(-avg_decay) + observed*(1 - exp(-avg_decay)),
\* before any residual is computed; every residual of the call is taken from
\* the updated accumulator and not from the observed stresses; and the
\* number of updates grows by one with every call, so that n calls make n
\* updates.
C11_AccumulatorUpdatedOnce ==
    [][AvgCall =>
        /\ \A a \in AtomIds :
              /\ IsWeightedMean(mem'.avg_sigma[a].xy, mem.avg_sigma[a].xy,
                                fit'.call.sigma[a].xy, fit'.call.w)
              /\ IsWeightedMean(mem'.avg_sigma[a].z, mem.avg_sigma[a].z,
                                fit'.call.sigma[a].z, fit'.call.w)
        /\ mem'.updates = mem.updates + 1
        /\ mem'.updates = mem'.calls
        /\ \A res \in fit'.call.evals : \A a \in DOMAIN res :
              res[a].sigma.xy = mem'.avg_sigma[a].xy]_vars

\* the last call of a run has fitted residuals that differ from the observed
\* stresses and from the accumulator the run started with
C11_Witness ==
    /\ mem.calls = Len(Observed)
    /\ mem.updates = Len(Observed)
    /\ fit.outcome = "ok"
    /\ \E res \in fit.call.evals : \E a \in DOMAIN res :
          /\ res[a].sigma.xy # fit.call.sigma[a].xy
          /\ res[a].sigma.xy # fit.call.avg_sigma[a].xy
          /\ res[a].sigma.xy \notin { acc[a].xy : acc \in Accumulators }

-----------------------------------------------------------------------------
(* fit_crack_stress_field: a singular covariance *)

ParamNames == {"K", "x0", "y0", "sxx0", "syy0", "sxy0"}

\* the solver returned, and its covariance is None
SingularCov == fit.outcome \notin {"none", "TypeError"} /\ fit.call.cov = None

\* C12: when the solver reports a singular covariance (cov is None) the call
\* does not fail: it returns the fitted parameters together with a standard
\* error of exactly 0 for every free parameter.
C12_SingularCovZeroErr ==
    SingularCov =>
        /\ fit.outcome = "ok"
        /\ DOMAIN fit.params = ParamNames
        /\ DOMAIN fit.err = fit.call.var_params
        /\ \A k \in fit.call.var_params : fit.err[k] = 0

\* a fit with free parameters that the solver moved and a singular covariance
C12_Witness ==
    /\ SingularCov
    /\ fit.call.var_params # {}
    /\ \E k \in fit.call.var_params : fit.params[k] # fit.call.params0[k]

-----------------------------------------------------------------------------
(* fit_crack_stress_field: the estimates of successive calls form a chain *)

\* the parameters as atoms.info holds them
Stored(inf) ==
    [K |-> inf["K"], x0 |-> inf["CrackPos"][1], y0 |-> inf["CrackPos"][2],
     sxx0 |-> inf["sigma0"][1], syy0 |-> inf["sigma0"][2],
     sxy0 |-> inf["sigma0"][3]]

\* a call with initial_params = None that follows a call that returned, with
\* the same fix_params
ChainedCall ==
    /\ mem'.calls = mem.calls + 1
    /\ fit.outcome = "ok"
    /\ fit'.call.initial_params = None
    /\ fit'.call.fix_params = fit.call.fix_params

\* C13: after fit_crack_stress_field returns, atoms.info holds K, sigma0 =
\* (sxx0, syy0, sxy0) and CrackPos = (x0, y0, cell_zz/2) equal to the returned
\* parameters, and a following call with initial_params = None and the same
\* fix_params starts its optimisation from exactly these stored values.
C13_EstimatesChain ==
    [][/\ fit'.outcome = "ok" /\ mem'.calls = mem.calls + 1 =>
            /\ Stored(info') = fit'.params
            /\ info'["CrackPos"][3] = CellZ
       /\ ChainedCall =>
            /\ fit'.call.params0 = Stored(info)
            /\ fit'.call.params0 = fit.params
            /\ \E res \in fit'.call.evals : \A a \in DOMAIN res :
                  res[a].irwin_sigma.params = Stored(info)]_vars

\* the third call of a run starts from the values the second one stored,
\* which are neither the first guesses nor what atoms.info held at first
C13_Witness ==
    /\ mem.calls = 3
    /\ fit.outcome = "ok"
    /\ fit.call.fix_params = [y0 |-> 0]
    /\ "CrackPos" \in DOMAIN fit.call.before
    /\ fit.call.params0 = Stored(fit.call.before)
    /\ fit.call.params0["K"] = MPA_SQRT_M + 2
    /\ fit.call.params0["x0"] \notin {PriorInfo["CrackPos"][1],
                                     MinX + (MaxX - MinX) \div 3}
    /\ fit.params # fit.call.params0

-----------------------------------------------------------------------------
(* fit_crack_stress_field: the values of initial_params *)

\* C14: every parameter value supplied in initial_params and not named in
\* fix_params is the value that parameter starts the optimisation with,
\* whatever subset of the six parameters is supplied.
C14_SuppliedValuesStart ==
    fit.outcome # "none" =>
        \A k \in DOMAIN fit.call.initial_params \ DOMAIN fit.call.fix_params :
            fit.call.params0[k] = fit.call.initial_params[k]

-----------------------------------------------------------------------------
(* find_tip_coordination: the tracked bond pair *)

\* atom i has fewer than bulk_nn neighbours and is in group 1
UnderCoordinated(i) ==
    /\ ret.args.before.at[i].nn < ret.args.bulk_nn
    /\ ret.args.before.at[i].g = 1

AtomsAbove == { i \in 0..2 : UnderCoordinated(i) /\ 2 * ret.args.before.at[i].y > CellYY }

AtomsBelow == { i \in 0..2 : UnderCoordinated(i) /\ 2 * ret.args.before.at[i].y < CellYY }

TipCalled == ret.name = "find_tip_coordination"

\* C15: find_tip_coordination returns (bond1, bond2), bond1 being the index
\* of the atom with the largest x among the atoms with fewer than bulk_nn
\* neighbours, in group 1 and above the cell mid-height, bond2 the same for the
\* atoms below the mid-height; both are stored in a.info as bond1 and bond2.
C15_BondsAreForemost ==
    TipCalled /\ ret.outcome = "ok" =>
        /\ ret.value[1] \in AtomsAbove
        /\ \A j \in AtomsAbove : atoms.at[ret.value[1]].x >= atoms.at[j].x
        /\ ret.value[2] \in AtomsBelow
        /\ \A j \in AtomsBelow : atoms.at[ret.value[2]].x >= atoms.at[j].x
        /\ atoms.bonds = ret.value

\* a call where the foremost atom above is not the first of several
C15_Witness ==
    /\ TipCalled /\ ret.outcome = "ok"
    /\ Cardinality(AtomsAbove) = 2
    /\ \E j \in AtomsAbove : j < ret.value[1] /\ atoms.at[j].x < atoms.at[ret.value[1]].x
    /\ atoms.bonds # ret.args.before.bonds

\* C16 as claimed: with no under-coordinated atom of group 1 on one side the
\* call raises a lookup error (IndexError, KeyError) and a.info['bond1'] and
\* a.info['bond2'] keep their values.
C16_RaisesLookupError ==
    TipCalled /\ (AtomsAbove = {} \/ AtomsBelow = {}) =>
        /\ ret.outcome \in {"LookupError", "IndexError", "KeyError"}
        /\ atoms.bonds = ret.args.before.bonds

\* C16: with no under-coordinated atom of group 1 on one side the call raises
\* the ValueError of argmax on an empty selection instead of returning a
\* pair, and a.info['bond1'] and a.info['bond2'] keep their values.
C16_RaisesValueError ==
    TipCalled /\ (AtomsAbove = {} \/ AtomsBelow = {}) =>
        /\ ret.outcome = "ValueError"
        /\ ret.value = <<>>
        /\ atoms.bonds = ret.args.before.bonds

\* a call with atoms above but none below, on an object that holds the pair
\* of an earlier call
C16_Witness ==
    /\ TipCalled
    /\ AtomsAbove # {} /\ AtomsBelow = {}
    /\ ret.outcome = "ValueError"
    /\ ret.args.before.bonds # <<>>
    /\ atoms.above # {}

-----------------------------------------------------------------------------
(* The thin strip: get_stress_intensity_factor and ConstantStrainRate *)

\* E/(1 - nu^2)
PlaneStrainModulus(inf) ==
    QDiv(inf["YoungsModulus"],
         QSub(Q(1, 1), QMul(inf["PoissonRatio_yx"], inf["PoissonRatio_yx"])))

\* C17: each call of get_stress_intensity_factor(atoms) recomputes from the
\* current positions strain = (max y - min y)/OrigHeight - 1 and
\* G = 0.5*E/(1 - nu^2)*strain^2*OrigHeight, returns K with K >= 0 and
\* K^2 = G*E/(1 - nu^2), and stores strain, G and K under those keys in
\* atoms.info.
C17_StressIntensityStored ==
    ret.name = "get_stress_intensity_factor" =>
        /\ ret.outcome = "ok"
        /\ {"strain", "G", "K"} \subseteq DOMAIN atoms.info
        /\ atoms.info["strain"] = StrainOf(atoms.y, atoms.info["OrigHeight"])
        /\ atoms.info["K"] = ret.value
        /\ ~QLess(ret.value, Q(0, 1))
        /\ QMul(ret.value, ret.value)
              = QMul(atoms.info["G"], PlaneStrainModulus(atoms.info))

\* C18: each call of adjust_positions makes the realized strain of newpos,
\* (max y - min y)/orig_height - 1, larger by exactly delta_strain than before
\* the call, for whatever mask the constraint was built with.
C18_StrainGrowsByDelta ==
    [][atoms'.steps = atoms.steps + 1 =>
          StrainOf(atoms'.y, atoms.constraint.orig_height)
            = QAdd(StrainOf(atoms.y, atoms.constraint.orig_height),
                   atoms.constraint.delta_strain)]_vars

-----------------------------------------------------------------------------
(* scale_displacements: the round trip *)

Scaled == ret.name = "scale_displacements"

\* C19 as claimed: scale_displacements with (old_k, new_k) followed by
\* scale_displacements on its result with (new_k, old_k) returns the original
\* (x, y); scaling with new_k = old_k is the identity and the reference
\* positions are fixed points.
C19_RoundTripExact ==
    Scaled =>
        /\ ret.round = 2 => ret.value = <<ret.first.x, ret.first.y>>
        /\ ret.args.new_k = ret.args.old_k => ret.value = <<ret.args.x, ret.args.y>>
        /\ ret.args.x = ret.args.ref_x => ret.value[1] = ret.args.ref_x
        /\ ret.args.y = ret.args.ref_y => ret.value[2] = ret.args.ref_y

QAbs(q) == Q(Abs(q[1]), q[2])

\* |a - b| <= c * 2^-prec * bound
CloseTo(a, b, c, bound) ==
    ~QLess(QMul(Q(c, Pow2(prec)), bound), QAbs(QSub(a, b)))

\* (1 + |old_k/new_k|) * (|x| + |ref|) of the first call
TripScale(x, ref) ==
    QMul(QAdd(Q(1, 1), QAbs(QDiv(ret.first.old_k, ret.first.new_k))),
         QAdd(QAbs(x), QAbs(ref)))

\* C19 as amended: the reference positions are fixed points exactly; in exact
\* arithmetic the round trip returns the original (x, y) and scaling with
\* new_k = old_k is the identity; in floating point scaling with new_k = old_k
\* returns (x, y) to within 3 * 2^-prec * (|x| + |ref|), and the round trip to
\* within 8 * 2^-prec * (1 + |old_k/new_k|) * (|x| + |ref|).
C19_RoundTripUpToRounding ==
    Scaled =>
        /\ ret.args.x = ret.args.ref_x => ret.value[1] = ret.args.ref_x
        /\ ret.args.y = ret.args.ref_y => ret.value[2] = ret.args.ref_y
        /\ prec = 0 =>
              /\ ret.round = 2 => ret.value = <<ret.first.x, ret.first.y>>
              /\ ret.args.new_k = ret.args.old_k =>
                    ret.value = <<ret.args.x, ret.args.y>>
        /\ prec > 0 /\ ret.args.new_k = ret.args.old_k =>
              /\ CloseTo(ret.value[1], ret.args.x, 3,
                        QAdd(QAbs(ret.args.x), QAbs(ret.args.ref_x)))
              /\ CloseTo(ret.value[2], ret.args.y, 3,
                        QAdd(QAbs(ret.args.y), QAbs(ret.args.ref_y)))
        /\ prec > 0 /\ ret.round = 2 =>
              /\ CloseTo(ret.value[1], ret.first.x, 8,
                        TripScale(ret.first.x, ret.first.ref_x))
              /\ CloseTo(ret.value[2], ret.first.y, 8,
                        TripScale(ret.first.y, ret.first.ref_y))

\* a round trip in floating point that does not return the original x
C19_Witness ==
    /\ Scaled
    /\ prec > 0
    /\ ret.round = 2
    /\ ret.first.old_k # ret.first.new_k
    /\ ret.value[1] # ret.first.x

-----------------------------------------------------------------------------
(* mic: the minimum image convention *)

\* the components of v along the cell vectors
Fractional(v, cell) == VecMat(v, Inverse(cell))

PeriodicDir(pbc, j) == pbc = None \/ pbc[j]

InHalfInterval(q) == 2 * Abs(q[1]) <= q[2]

\* C20: along every periodic cell direction the fractional component of
\* mic(dr, cell, pbc) lies in [-1/2, 1/2]; the components along directions
\* with pbc false are those of dr; pbc = None treats all three directions as
\* periodic; and applying mic to its own result changes nothing.
C20_MinimumImage ==
    ret.name = "mic" =>
        /\ \A j \in 1..3 :
              IF PeriodicDir(ret.args.pbc, j)
              THEN InHalfInterval(Fractional(ret.value, ret.args.cell)[j])
              ELSE Fractional(ret.value, ret.args.cell)[j]
                      = Fractional(ret.args.dr, ret.args.cell)[j]
        /\ ret.round = 2 => ret.value = ret.args.dr

-----------------------------------------------------------------------------
(* fit_crack_stress_field: the caller's sigma array *)

\* C26: fit_crack_stress_field never modifies the caller-supplied sigma
\* array: the out-of-plane components are zeroed on a private copy, both when
\* avg_sigma is supplied and when it is None.
C26_SigmaUntouched ==
    fit.outcome # "none" => mem.sigma = fit.call.sigma

-----------------------------------------------------------------------------
(* fit_crack_stress_field: the scale of the covariance *)

\* the length of the residual vectors of the call: 3x3 components for every
\* atom of the mask
ResidualLengths == { 9 * Cardinality(DOMAIN res) : res \in fit.call.evals }

\* C22: the covariance is scaled by the sum of squared residuals divided by
\* (N_residuals - N_free_params), N_residuals being the length of the residual
\* vector actually fitted (the components of the masked atoms only) and
\* N_free_params the number of parameters that are not fixed.
C22_ScaleByFittedResiduals ==
    fit.outcome = "ok" /\ fit.call.cov # None =>
        \A n \in ResidualLengths :
            fit.call.dof = n - Cardinality(fit.call.var_params)

-----------------------------------------------------------------------------
(* fit_crack_stress_field: one mask for the whole call *)

\* the atoms with rmin < r < rmax, r being the distance to (x0, y0) of p
AtomsAround(p, r_range) ==
    IF r_range = None THEN AtomIds
    ELSE { a \in AtomIds :
             /\ r_range[1] < 0 \/ Distance2(p, a) > r_range[1] * r_range[1]
             /\ r_range[2] > 0 /\ Distance2(p, a) < r_range[2] * r_range[2] }

-----------------------------------------------------------------------------
(* find_tip_coordination: the two bonds *)

\* atom i is in group 1 and has fewer than bulk_nn neighbours
Eligible(i) == atoms.at[i].g = 1 /\ atoms.at[i].nn < ret.args.bulk_nn

\* atom i has the x of atom b, is eligible and on the side of b
RivalOf(i, b) ==
    /\ Eligible(i)
    /\ atoms.at[i].x = atoms.at[b].x
    /\ (2 * atoms.at[i].y > CellYY) = (2 * atoms.at[b].y > CellYY)
    /\ 2 * atoms.at[i].y # CellYY

\* C28: whenever find_tip_coordination returns, bond1 and bond2 are two
\* different atoms, bond1 strictly above and bond2 strictly below the cell
\* mid-height, both in group 1 with fewer than bulk_nn neighbours; an atom at
\* y = cell_yy/2 is never selected, and among several atoms sharing the
\* maximal x the one with the lowest index is chosen.
C28_BondsDistinctAndFirst ==
    TipCalled /\ ret.outcome = "ok" =>
        LET bond1 == ret.value[1]
            bond2 == ret.value[2]
        IN  /\ bond1 # bond2
            /\ 2 * atoms.at[bond1].y > CellYY
            /\ 2 * atoms.at[bond2].y < CellYY
            /\ Eligible(bond1) /\ Eligible(bond2)
            /\ \A i \in DOMAIN atoms.at : RivalOf(i, bond1) => bond1 <= i
            /\ \A i \in DOMAIN atoms.at : RivalOf(i, bond2) => bond2 <= i

\* a call that chose between two eligible atoms of the same x below the
\* mid-height
C28_Witness ==
    /\ TipCalled /\ ret.outcome = "ok"
    /\ \E i \in DOMAIN atoms.at : i # ret.value[2] /\ RivalOf(i, ret.value[2])
    /\ ret.value[1] = 0

-----------------------------------------------------------------------------
(* _init_crack: one root of each pair *)

\* how often the value z occurs in the sequence r
Count(z, r) == Cardinality({ i \in DOMAIN r : CEq(r[i], z) })

\* C23: whenever _init_crack completes without error, mu1 and mu2 come one
\* from each of the two conjugate pairs: the four roots are mu1, conj(mu1),
\* mu2 and conj(mu2), each as often as it occurs among them, so that the two
\* discarded roots are exactly conj(mu1) and conj(mu2).
C23_OneRootOfEachPair ==
    crack.state = "configured" =>
        LET mu1  == crack.par.mu1
            mu2  == crack.par.mu2
            four == <<mu1, CConj(mu1), mu2, CConj(mu2)>>
        IN  /\ \A i \in 1..4 : Count(crack.roots[i], four) = Count(crack.roots[i], crack.roots)
            /\ \A i \in 1..4 : Count(four[i], four) = Count(four[i], crack.roots)
            /\ \E i \in 1..4, j \in 1..4 :
                  /\ i # j
                  /\ crack.roots[i] = mu1 /\ crack.roots[j] = mu2
                  /\ \E k \in 1..4, l \in 1..4 :
                        /\ {i, j, k, l} = 1..4
                        /\ crack.roots[k] = CConj(mu1)
                        /\ crack.roots[l] = CConj(mu2)

\* a configured crack with two different pairs of roots off the real axis
C23_Witness ==
    /\ crack.state = "configured"
    /\ crack.par.mu1.im # 0 /\ crack.par.mu2.im # 0
    /\ ~CEq(crack.par.mu2, crack.par.mu1)
    /\ ~CEq(crack.par.mu2, CConj(crack.par.mu1))


-----------------------------------------------------------------------------
(* C24 *)

\* a freshly constructed object with the constants of e
Fresh(e) == NewModuli(e.C11, e.C12, e.C44)

\* C24: rotate is not cumulative: whatever rotate and _rotate_explicit calls
\* came before, the constants stored by a successful rotate(A) are those
\* that rotate(A) stores on a freshly constructed object with the same C11,
\* C12 and C44, and after rotate(identity) they are the constants the
\* constructor stored
C24_RotateNotCumulative ==
    [][(op'.name = "rotate" /\ op'.outcome = "ok") =>
          /\ stiffness(E') = stiffness(rotate(Fresh(E), op'.A).obj)
          /\ op'.A = Identity => stiffness(E') = stiffness(Fresh(E))]_vars

\* rotate(identity) has returned, and the constants it stored are those of
\* the constructor, on a crystal whose constants do depend on the orientation
C24_Witness ==
    /\ op.name = "rotate"
    /\ op.outcome = "ok"
    /\ op.A = Identity
    /\ E.al # 0
    /\ stiffness(E) = stiffness(Fresh(E))
    /\ \E A \in TestOrientations : stiffness(rotate(E, A).obj) # stiffness(E)


-----------------------------------------------------------------------------
(* C25 *)

\* slot by slot, two stored results hold the same numbers
EqualConstants(C, D) == \A q \in 1..3, p \in 1..3 : NEq(C[q][p], D[q][p])

\* C12_rot[p] belongs to the pair of axes other than p, so the two C12_rot
\* slots whose pair contains axis i are the slots other than i
SlotsWithAxis(i) == (1..3) \ {i}

\* C11_rot[i] plus the C12_rot slots whose pair contains axis i
AxisSum(e, i) ==
    LET j == CHOOSE x \in SlotsWithAxis(i) : \A y \in SlotsWithAxis(i) : x <= y
        k == CHOOSE x \in SlotsWithAxis(i) : x # j
    IN  NAdd(e.C11_rot[i], NAdd(e.C12_rot[j], e.C12_rot[k]))

-----------------------------------------------------------------------------
(* RectilinearAnisotropicCrack.displacements *)

\* an angle theta in (-pi, pi), given by the point (c, s)/n of the unit
\* circle at theta/2, so that cos(theta) and sin(theta) are rational
HalfAngles ==
    { [c |-> 1, s |-> 0, n |-> 1],
      [c |-> 4, s |-> 3, n |-> 5], [c |-> 4, s |-> -3, n |-> 5],
      [c |-> 3, s |-> 4, n |-> 5], [c |-> 3, s |-> -4, n |-> 5] }

\* -theta
Mirror(theta) == [theta EXCEPT !.s = -theta.s]

\* np.cos(theta)
Cos(theta) == CFrac(theta.c * theta.c - theta.s * theta.s, 0, theta.n * theta.n)

\* np.sin(theta)
Sin(theta) == CFrac(2 * theta.c * theta.s, 0, theta.n * theta.n)

IsSquare(k) == k >= 0 /\ ISqrt(k) * ISqrt(k) = k

\* the square root of z = (a + i*b)/d is a rational complex number: with
\* m = |a + i*b| it is (sqrt((m + a)*2*d) + i*sqrt((m - a)*2*d)) / (2*d)
HasRoot(z) ==
    /\ z.d # 0
    /\ IsSquare(z.re * z.re + z.im * z.im)
    /\ LET m == ISqrt(z.re * z.re + z.im * z.im)
       IN  IsSquare((m + z.re) * 2 * z.d) /\ IsSquare((m - z.re) * 2 * z.d)

\* np.sqrt(z) of a complex z: the root in the right half plane, with the
\* sign of the imaginary part of z; not finite when z is not
CSqrt(z) ==
    IF z.d = 0 THEN CNonFinite
    ELSE LET m == ISqrt(z.re * z.re + z.im * z.im)
             x == ISqrt((m + z.re) * 2 * z.d)
             y == ISqrt((m - z.re) * 2 * z.d)
         IN  CFrac(x, IF z.im < 0 THEN -y ELSE y, 2 * z.d)

\* z.real as a rational; <<0, 0>> is NaN
NotANumber == <<0, 0>>

Real(z) == IF z.d = 0 THEN NotANumber ELSE Q(z.re, z.d)

\* cos(theta) + mu*sin(theta)
Radial(mu, theta) == CAdd(Cos(theta), CMul(mu, Sin(theta)))

\* RectilinearAnisotropicCrack.displacements(r, theta, k): u and v in units
\* of the factor h1 = k*sqrt(2*r/pi), which is positive for k > 0 and r > 0
displacements(c, r, theta, k) ==
    IF c.state # "configured"
    THEN [outcome |-> "AttributeError", u |-> NotANumber, v |-> NotANumber]
    ELSE LET h2 == CSqrt(Radial(c.par.mu2, theta))
             h3 == CSqrt(Radial(c.par.mu1, theta))
         IN  [outcome |-> "ok",
              u |-> Real(CMul(c.par.h1, CSub(CMul(c.par.h2, h2), CMul(c.par.h3, h3)))),
              v |-> Real(CMul(c.par.h1, CSub(CMul(c.par.h4, h2), CMul(c.par.h5, h3))))]

\* the plane-stress compliances of an isotropic material: a11 = a22,
\* a66 = 2*(a11 - a12) and no coupling of shear and extension
IsotropicCoefficients ==
    { [a11 |-> a, a22 |-> a, a12 |-> b, a16 |-> 0, a26 |-> 0, a66 |-> 2 * (a - b)]
        : a \in 1..2, b \in -1..0 }

\* crack.displacements(r, theta, k) at an angle where both roots are rational
Displacements(r, theta, k) ==
    /\ crack.state \in {"coefficients", "configured"}
    /\ crack.state = "configured" =>
          HasRoot(Radial(crack.par.mu1, theta)) /\ HasRoot(Radial(crack.par.mu2, theta))
    /\ LET d == displacements(crack, r, theta, k)
       IN  ret' = [name |-> "displacements", outcome |-> d.outcome,
                   r |-> r, theta |-> theta, k |-> k, u |-> d.u, v |-> d.v]
    /\ UNCHANGED <<prec, E, op, crack, kcall, cc, info, fit, mem, atoms>>

\* crack = RectilinearAnisotropicCrack() once more
NewField ==
    /\ crack.state # "new"
    /\ crack' = NewCrack
    /\ ret' = NoRet
    /\ UNCHANGED <<prec, E, op, kcall, cc, info, fit, mem, atoms>>

InitField ==
    /\ prec = 0
    /\ E = NewModuli(MaxC, 1, 2)
    /\ op = [name |-> "init", A |-> Identity, outcome |-> "ok"]
    /\ crack = NewCrack
    /\ kcall = NoCall
    /\ cc = NoCrystal
    /\ info = NoInfo
    /\ fit = NoFit
    /\ mem = NoArrays
    /\ atoms = NoAtoms
    /\ ret = NoRet

NextField ==
    \/ \E a \in IsotropicCoefficients : SetPlaneStress(a)
    \/ \E r \in 1..2, theta \in HalfAngles, k \in 1..2 : Displacements(r, theta, k)
    \/ NewField

SpecField == InitField /\ [][NextField]_vars

-----------------------------------------------------------------------------
(* C21 *)

\* the compliances of c are those of an isotropic material
IsotropicLimit(c) ==
    /\ c.a11 = c.a22
    /\ c.a66 = 2 * (c.a11 - c.a12)
    /\ c.a16 = 0
    /\ c.a26 = 0

\* x == y for two floats: NaN equals nothing
SameReal(x, y) == x # NotANumber /\ y # NotANumber /\ x = y

-----------------------------------------------------------------------------
(* idealbrittlesolid.py: the thin strip that is extended as the crack runs. *)
(* Lengths along x are in units of a/2, lengths along y in units of         *)
(* sqrt(3)*a/2, so that the sites of the triangular lattice are integers    *)

\* the module global N of the script: the number of rows of the slab
N == 2

\* the largest M of extend_strip(atoms, M)
MaxM == 2

RECURSIVE QSumSeq(_)
QSumSeq(s) == IF s = <<>> THEN Q(0, 1) ELSE QAdd(Head(s), QSumSeq(Tail(s)))

\* s - s.mean()
Centred(s) == [i \in DOMAIN s |-> QSub(s[i], QDiv(QSumSeq(s), Q(Len(s), 1)))]

\* triangular_lattice_slab(a, n, m): the two atoms (0, 0) and (a/2,
\* sqrt(3)*a/2) of the cell, repeated n times along x and m/2 times along y
triangular_lattice_slab(n, m) ==
    LET rows == m \div 2
        cell(i) == (i - 1) \div 2
        k(i) == (i - 1) % 2
    IN  [x |-> [i \in 1..(2 * n * rows) |-> Q(2 * (cell(i) \div rows) + k(i), 1)],
         y |-> [i \in 1..(2 * n * rows) |-> Q(2 * (cell(i) % rows) + k(i), 1)]]

\* the entries of s whose index is not in D, in their order
RECURSIVE KeepFrom(_, _, _)
KeepFrom(s, D, i) ==
    IF i > Len(s) THEN <<>>
    ELSE (IF i \in D THEN <<>> ELSE <<s[i]>>) \o KeepFrom(s, D, i + 1)

\* del atoms[discard]
Delete(a, D) ==
    [a EXCEPT !.x = KeepFrom(a.x, D, 1), !.y = KeepFrom(a.y, D, 1),
              !.fix = KeepFrom(a.fix, D, 1)]

\* atoms.positions[:, 0].argsort()[:n] as a set: n indices of smallest x,
\* the sort being free to order equal x either way
Discards(x, n) ==
    { D \in SUBSET DOMAIN x :
        /\ Cardinality(D) = n
        /\ \A i \in D, j \in DOMAIN x \ D : ~QLess(x[j], x[i]) }

\* atoms.positions[fix, 0]
FixedX(a) == { a.x[i] : i \in { j \in DOMAIN a.x : a.fix[j] } }

\* the largest of a non-empty set of rationals
MaxQ(S) == CHOOSE v \in S : \A w \in S : ~QLess(v, w)

\* extend_strip up to atoms.set_constraint([]): the slab with extra appended
Extended(a, M) ==
    LET slab   == triangular_lattice_slab(M, N)
        s      == get_strain(a)
        shift  == QAdd(MaxQ(FixedX(a)), Q(1, 1))
        centre == Centred(slab.y)
    IN  [s.atoms EXCEPT
           !.x = a.x \o [i \in DOMAIN slab.x |-> QAdd(slab.x[i], shift)],
           !.y = a.y \o [i \in DOMAIN slab.y |->
                           QMul(centre[i], QAdd(Q(1, 1), s.value))],
           !.fix = a.fix \o [i \in DOMAIN slab.x |-> FALSE],
           !.constraints = <<>>]

\* extend_strip without the del atoms[discard]
extend_strip_no_discard(a, M) ==
    LET left  == MinOf(a.x)
        width == QSub(MaxOf(a.x), MinOf(a.x))
    IN  IF "tip_x" \notin DOMAIN a.info
        THEN { [atoms |-> a, outcome |-> "KeyError", appended |-> 0] }
        ELSE IF QLess(a.info["tip_x"], QAdd(left, QMul(Q(3, 5), width)))
        THEN { [atoms |-> a, outcome |-> "return", appended |-> 0] }
        ELSE IF "OrigHeight" \notin DOMAIN a.info
        THEN { [atoms |-> a, outcome |-> "KeyError", appended |-> 0] }
        ELSE IF FixedX(a) = {}
        THEN { [atoms |-> get_strain(a).atoms, outcome |-> "ValueError", appended |-> 0] }
        ELSE { [atoms |-> Extended(a, M), outcome |-> "ok", appended |-> 2 * M * (N \div 2)] }

\* extend_strip(atoms, M): every result the call can have, the discarded
\* atoms being any choice the sort allows
extend_strip(a, M) ==
    LET left  == MinOf(a.x)
        width == QSub(MaxOf(a.x), MinOf(a.x))
    IN  IF "tip_x" \notin DOMAIN a.info
        THEN { [atoms |-> a, outcome |-> "KeyError", appended |-> 0] }
        ELSE IF QLess(a.info["tip_x"], QAdd(left, QMul(Q(3, 5), width)))
        THEN { [atoms |-> a, outcome |-> "return", appended |-> 0] }
        ELSE IF "OrigHeight" \notin DOMAIN a.info
        THEN { [atoms |-> a, outcome |-> "KeyError", appended |-> 0] }
        ELSE IF FixedX(a) = {}
        THEN { [atoms |-> get_strain(a).atoms, outcome |-> "ValueError", appended |-> 0] }
        ELSE { [atoms |-> Delete(Extended(a, M), D), outcome |-> "ok",
                appended |-> 2 * M * (N \div 2)]
                 : D \in Discards(Extended(a, M).x, 2 * M * (N \div 2)) }

\* the stored tip positions of the runs
TipChoices == { Q(1, 1), Q(3, 1), Q(7, 2), Q(9, 1) }

\* the strip before the first call: a slab of n cells strained by strain,
\* every atom in the fixed top or bottom row, with or without a stored tip
Strip(n, strain, inf) ==
    LET slab == triangular_lattice_slab(n, N)
    IN  [state |-> "strip", x |-> slab.x,
         y |-> [i \in DOMAIN slab.y |-> QMul(slab.y[i], QAdd(Q(1, 1), strain))],
         fix |-> [i \in DOMAIN slab.x |-> TRUE],
         constraints |-> <<"FixAtoms">>,
         info |-> inf]

\* extend_strip(atoms, M)
ExtendStrip(M) ==
    /\ \E r \in extend_strip(atoms, M) :
          /\ atoms' = r.atoms
          /\ ret' = [name |-> "extend_strip", outcome |-> r.outcome, M |-> M,
                     before |-> atoms, appended |-> r.appended]
    /\ UNCHANGED <<prec, E, op, crack, kcall, cc, info, fit, mem>>

\* the tracker stores a new tip position between two calls
StoreTip(tip_x) ==
    /\ atoms' = [atoms EXCEPT !.info = Update(atoms.info, [tip_x |-> tip_x])]
    /\ ret' = NoRet
    /\ UNCHANGED <<prec, E, op, crack, kcall, cc, info, fit, mem>>

InitExtend ==
    /\ prec = 0
    /\ E = NewModuli(MaxC, 1, 1)
    /\ op = [name |-> "init", A |-> Identity, outcome |-> "ok"]
    /\ crack = AbsentCrack
    /\ kcall = NoCall
    /\ cc = NoCrystal
    /\ info = NoInfo
    /\ fit = NoFit
    /\ mem = NoArrays
    /\ \E n \in 2..3, strain \in {Q(0, 1), Q(1, 2)},
          inf \in { [OrigHeight |-> Q(1, 1)], <<>> } :
          atoms = Strip(n, strain, inf)
    /\ ret = NoRet

NextExtend ==
    \/ \E M \in 1..MaxM : ExtendStrip(M)
    \/ \E tip_x \in TipChoices : StoreTip(tip_x)

SpecExtend == InitExtend /\ [][NextExtend]_vars


-----------------------------------------------------------------------------
(* C29 *)

\* how often the value v occurs in the sequence s
Occurrences(v, s) == Cardinality({ i \in DOMAIN s : s[i] = v })

\* kept is what remains of all after taking away n entries, none of them
\* larger than an entry that remains
SmallestRemoved(all, kept, n) ==
    /\ Len(all) - Len(kept) = n
    /\ \A i \in DOMAIN all :
          /\ Occurrences(all[i], kept) <= Occurrences(all[i], all)
          /\ Occurrences(all[i], kept) < Occurrences(all[i], all) =>
                \A j \in DOMAIN kept : ~QLess(kept[j], all[i])
    /\ \A j \in DOMAIN kept : Occurrences(kept[j], all) > 0

\* tip_x < left + 0.6*width for the strip a
TipFarFromEnd(a) ==
    /\ "tip_x" \in DOMAIN a.info
    /\ QLess(a.info["tip_x"],
             QAdd(MinOf(a.x), QMul(Q(3, 5), QSub(MaxOf(a.x), MinOf(a.x)))))

\* C29: a call of extend_strip with tip_x < left + 0.6*width leaves the atoms
\* as they are; a call that extends appends the slab of 2*M*(N/2) atoms,
\* clears the constraints and removes as many atoms of smallest x; the
\* number of atoms is the same after every step of a run
C29_ExtendKeepsCount ==
    [][/\ Len(atoms'.x) = Len(atoms.x)
       /\ ret'.name = "extend_strip" =>
             /\ TipFarFromEnd(atoms) => (atoms' = atoms /\ ret'.outcome = "return")
             /\ ret'.outcome = "return" => TipFarFromEnd(atoms)
             /\ ret'.outcome = "ok" =>
                   /\ ret'.appended = 2 * ret'.M * (N \div 2)
                   /\ atoms'.constraints = <<>>
                   /\ SmallestRemoved(Extended(atoms, ret'.M).x, atoms'.x,
                                      ret'.appended)]_vars

\* a second extension has returned: the strip held appended atoms before the
\* call, the call appended four more and removed four, and the tip is now
\* behind the new left end
C29_Witness ==
    /\ ret.name = "extend_strip"
    /\ ret.outcome = "ok"
    /\ ret.appended = 4
    /\ \E i \in DOMAIN ret.before.fix : ~ret.before.fix[i]
    /\ Len(atoms.x) = Len(ret.before.x)
    /\ QLess(MinOf(ret.before.x), MinOf(atoms.x))
    /\ atoms.constraints = <<>>


-----------------------------------------------------------------------------
(* idealbrittlesolid.py: find_crack_tip *)

\* np.bincount(i) for the first indices i of the neighbour list, cnt[j]
\* being the number of neighbours of atom j: the counts up to the last atom
\* that has a neighbour
bincount(cnt) ==
    LET last == { j \in DOMAIN cnt : cnt[j] > 0 }
    IN  IF last = {} THEN <<>>
        ELSE SubSeq(cnt, 1, CHOOSE j \in last : \A k \in last : k <= j)

\* calc.get_wave_speeds(atoms)[2] = 0.563*sqrt(k*a**2/m) for the calculator
\* parameters k = 1, a = 2 (two units of length) and unit masses
c_R == Q(563, 500)

\* tip_max_x: old_tip_x + 10.0*cR*dt, or left + 0.8*width without dt
TipMaxX(a, dt) ==
    LET left      == MinOf(a.x)
        width     == QSub(MaxOf(a.x), MinOf(a.x))
        old_tip_x == IF "tip_x" \in DOMAIN a.info THEN a.info["tip_x"]
                     ELSE QAdd(left, QMul(Q(3, 10), width))
    IN  IF dt # None THEN QAdd(old_tip_x, QMul(QMul(Q(10, 1), c_R), dt))
        ELSE QAdd(left, QMul(Q(4, 5), width))

\* the search window without the bound tip_max_x
BrokenUpToEnd(a, nn, dt) ==
    LET left   == MinOf(a.x)
        width  == QSub(MaxOf(a.x), MinOf(a.x))
        bottom == MinOf(a.y)
        height == QSub(MaxOf(a.y), MinOf(a.y))
    IN  { j \in DOMAIN a.x :
            /\ (IF Len(nn) = 1 THEN nn[1] ELSE nn[j]) # 6
            /\ QLess(QAdd(left, QMul(Q(1, 5), width)), a.x[j])
            /\ QLess(QAdd(bottom, QMul(Q(1, 10), height)), a.y[j])
            /\ QLess(a.y[j], QAdd(bottom, QMul(Q(9, 10), height))) }

\* broken.nonzero()[0]: the atoms with nn != 6 inside the search window
Broken(a, nn, dt) ==
    LET left   == MinOf(a.x)
        width  == QSub(MaxOf(a.x), MinOf(a.x))
        bottom == MinOf(a.y)
        height == QSub(MaxOf(a.y), MinOf(a.y))
    IN  { j \in DOMAIN a.x :
            /\ (IF Len(nn) = 1 THEN nn[1] ELSE nn[j]) # 6
            /\ QLess(QAdd(left, QMul(Q(1, 5), width)), a.x[j])
            /\ QLess(a.x[j], TipMaxX(a, dt))
            /\ QLess(QAdd(bottom, QMul(Q(1, 10), height)), a.y[j])
            /\ QLess(a.y[j], QAdd(bottom, QMul(Q(9, 10), height))) }

\* broken.nonzero()[0][atoms.positions[broken, 0].argmax()]: the first of
\* the atoms of largest x
ArgMax(x, S) ==
    CHOOSE j \in S : \A k \in S : QLess(x[k], x[j]) \/ (x[k] = x[j] /\ j <= k)

\* find_crack_tip searching up to the end of the window whatever dt is
find_crack_tip_whole_strip(a, dt, store) ==
    LET nn       == bincount(a.cnt)
        failed(o, b) == [atoms |-> b, outcome |-> o, tip_atom |-> 0,
                         tip_x |-> Q(0, 1), broken |-> {}]
    IN  IF Len(nn) \notin {1, Len(a.x)} THEN failed("ValueError", a)
        ELSE IF BrokenUpToEnd(a, nn, dt) = {} THEN failed("ValueError", a)
        ELSE IF "OrigHeight" \notin DOMAIN a.info THEN failed("KeyError", a)
        ELSE IF "eps_G" \notin DOMAIN a.info THEN failed("KeyError", get_strain(a).atoms)
        ELSE LET broken   == BrokenUpToEnd(a, nn, dt)
                 tip_atom == ArgMax(a.x, broken)
                 tip_x    == a.x[tip_atom]
                 b        == get_strain(a).atoms
             IN  [atoms |-> IF store
                            THEN [b EXCEPT !.info = Update(b.info,
                                     [tip_atom |-> tip_atom, tip_x |-> tip_x])]
                            ELSE b,
                  outcome |-> "ok", tip_atom |-> tip_atom, tip_x |-> tip_x,
                  broken |-> broken]

\* find_crack_tip(atoms, dt, store): the atoms after the call, how it ended
\* and what it returned
find_crack_tip(a, dt, store) ==
    LET nn       == bincount(a.cnt)
        failed(o, b) == [atoms |-> b, outcome |-> o, tip_atom |-> 0,
                         tip_x |-> Q(0, 1), broken |-> {}]
    IN  IF Len(nn) \notin {1, Len(a.x)} THEN failed("ValueError", a)
        ELSE IF Broken(a, nn, dt) = {} THEN failed("ValueError", a)
        ELSE IF "OrigHeight" \notin DOMAIN a.info THEN failed("KeyError", a)
        ELSE IF "eps_G" \notin DOMAIN a.info THEN failed("KeyError", get_strain(a).atoms)
        ELSE LET broken   == Broken(a, nn, dt)
                 tip_atom == ArgMax(a.x, broken)
                 tip_x    == a.x[tip_atom]
                 b        == get_strain(a).atoms
             IN  [atoms |-> IF store
                            THEN [b EXCEPT !.info = Update(b.info,
                                     [tip_atom |-> tip_atom, tip_x |-> tip_x])]
                            ELSE b,
                  outcome |-> "ok", tip_atom |-> tip_atom, tip_x |-> tip_x,
                  broken |-> broken]

\* the cracked strip of the runs: two corner atoms, a surface atom, and a row
\* of atoms at mid-height along which the crack runs; cnt is the number of
\* neighbours of each atom
TrackX == <<0, 10, 5, 1, 3, 4, 5, 6, 7, 9>>

TrackY == <<0, 4, 0, 2, 2, 2, 2, 2, 2, 2>>

MidRow == 4..9

Cracked(cnt, inf) ==
    [state |-> "strip",
     x |-> [j \in DOMAIN TrackX |-> Q(TrackX[j], 1)],
     y |-> [j \in DOMAIN TrackY |-> Q(TrackY[j], 1)],
     cnt |-> cnt, info |-> inf]

\* the time between two calls of the tracker; None: no dt given
TimeSteps == { None, Q(1, 10), Q(1, 4) }

\* find_crack_tip(atoms, dt=dt, store=store)
FindCrackTip(dt, store) ==
    /\ LET r == find_crack_tip(atoms, dt, store)
       IN  /\ atoms' = r.atoms
           /\ ret' = [name |-> "find_crack_tip", outcome |-> r.outcome,
                      dt |-> dt, store |-> store, before |-> atoms.info,
                      tip_atom |-> r.tip_atom, tip_x |-> r.tip_x,
                      broken |-> r.broken]
    /\ UNCHANGED <<prec, E, op, crack, kcall, cc, info, fit, mem>>

\* the dynamics between two calls: the atom j of the row loses a neighbour
BreakBond(j) ==
    /\ atoms.cnt[j] = 6
    /\ atoms' = [atoms EXCEPT !.cnt[j] = 5]
    /\ ret' = NoRet
    /\ UNCHANGED <<prec, E, op, crack, kcall, cc, info, fit, mem>>

InitTrack ==
    /\ prec = 0
    /\ E = NewModuli(MaxC, 1, 1)
    /\ op = [name |-> "init", A |-> Identity, outcome |-> "ok"]
    /\ crack = AbsentCrack
    /\ kcall = NoCall
    /\ cc = NoCrystal
    /\ info = NoInfo
    /\ fit = NoFit
    /\ mem = NoArrays
    /\ \E last \in {0, 5}, seed \in {5, 6},
          inf \in { [OrigHeight |-> Q(4, 1), eps_G |-> Q(1, 10)],
                    [OrigHeight |-> Q(4, 1)], <<>> } :
          atoms = Cracked(<<3, 3, 4, 5, seed, 6, 6, 6, 6, last>>, inf)
    /\ ret = NoRet

NextTrack ==
    \/ \E dt \in TimeSteps, store \in BOOLEAN : FindCrackTip(dt, store)
    \/ \E j \in MidRow : BreakBond(j)

SpecTrack == InitTrack /\ [][NextTrack]_vars


-----------------------------------------------------------------------------
(* C30 *)

\* old_tip_x: the stored tip, or left + 0.3*width if there is none
OldTipX(a) ==
    IF "tip_x" \in DOMAIN a.info THEN a.info["tip_x"]
    ELSE QAdd(MinOf(a.x), QMul(Q(3, 10), QSub(MaxOf(a.x), MinOf(a.x))))

\* 10*c_R*dt
Reach(dt) == QMul(QMul(Q(10, 1), c_R), dt)

\* atom j has a neighbour count other than 6 and lies in the window
\* x > left + 0.2*width, x < bound, bottom + 0.1*height < y < bottom + 0.9*height
Candidate(a, j, bound) ==
    /\ a.cnt[j] # 6
    /\ QLess(QAdd(MinOf(a.x), QMul(Q(1, 5), QSub(MaxOf(a.x), MinOf(a.x)))), a.x[j])
    /\ QLess(a.x[j], bound)
    /\ QLess(QAdd(MinOf(a.y), QMul(Q(1, 10), QSub(MaxOf(a.y), MinOf(a.y)))), a.y[j])
    /\ QLess(a.y[j], QAdd(MinOf(a.y), QMul(Q(9, 10), QSub(MaxOf(a.y), MinOf(a.y)))))

\* the entries tip_x and tip_atom of an info dictionary
TipEntries(inf) == [k \in DOMAIN inf \cap {"tip_x", "tip_atom"} |-> inf[k]]

====
